---- MODULE Spec2Model ----
(***************************************************************************)
(* State-machine model of the Flask backend src/app.py of the smart fish   *)
(* feeder: the device control document devices/ESP32001 in the store, the  *)
(* operator session, and the control / polling / ingestion handlers.       *)
(*                                                                         *)
(* Numbers that Python holds as floats are held in tenths (12.5 is 125).   *)
(***************************************************************************)
EXTENDS Integers, Sequences, FiniteSets, TLC

VARIABLES
    dbAvailable,   \* db is not None (init_firebase succeeded)
    loginEnvOff,   \* os.environ FIRESTORE_LOGIN_DISABLED is "1"
    users,         \* the "users" collection: a sequence of user documents
    session,       \* the Flask session of the browser: a function key -> value
    now,           \* the value datetime.utcnow() returns
    devices,       \* devices/{id}: [exists, data], data a function field -> value
    readings,      \* devices/{id}/readings: a sequence of reading documents
    resp,          \* the response to the request handled last
    inflight       \* the requests being handled that have yet to make their write

vars == <<dbAvailable, loginEnvOff, users, session, now, devices, readings, resp, inflight>>

-----------------------------------------------------------------------------
(* Bounds *)

MaxTime == 2        \* the clock runs over 0..MaxTime
MaxReadings == 1    \* readings stored, over all devices, when only ingestion runs
MaxViewed == 2      \* readings stored, over all devices, when the pages run too
MaxUsers == 3       \* accounts in the users collection
MaxInFlight == 2    \* requests handled at the same time
\* The limits of the "latest" queries, scaled down with the store:
LatestLimit == 2      \* limit(50): /dashboard, /mosfet, /apilatestreadings, allreadings
ShortLimit == 1       \* limit(10) of /controlfeeding and data[-10:] of /dashboard
UltrasonicLimit == 2  \* limit(100) of /apiultrasonicesp322

-----------------------------------------------------------------------------
(* Values of a request: JSON values and form strings, tagged by Python type *)

Raw(t, v) == [t |-> t, v |-> v]
Absent == Raw("absent", 0)     \* the key is not in the body
Null == Raw("null", 0)         \* JSON null
BadStr == Raw("badstr", 0)     \* a string that is no number, such as "abc"
PyIntV(n) == Raw("int", n)       \* a JSON integer
PyFloatV(t) == Raw("float", t)   \* a JSON number with a fraction, in tenths
IntStr(n) == Raw("intstr", n)    \* a string holding an integer literal
DecStr(t) == Raw("decstr", t)    \* a string holding a decimal literal, in tenths
InfV(sign) == Raw("inf", sign)   \* the JSON literals Infinity (1) and -Infinity (-1)
NaNV == Raw("nan", 0)            \* the JSON literal NaN
BigInt == Raw("bigint", 0)       \* a JSON integer above the largest float, 10**400

\* Python's truncation toward zero of a number held in tenths.
Trunc10(t) == IF t >= 0 THEN t \div 10 ELSE -((-t) \div 10)

\* int(value): the integer, or the exception it raises.
PyInt(x) ==
    CASE x.t = "int" -> [ok |-> TRUE, val |-> x.v, exc |-> "none"]
      [] x.t = "float" -> [ok |-> TRUE, val |-> Trunc10(x.v), exc |-> "none"]
      [] x.t = "intstr" -> [ok |-> TRUE, val |-> x.v, exc |-> "none"]
      [] x.t \in {"decstr", "badstr", "nan"} -> [ok |-> FALSE, val |-> 0, exc |-> "ValueError"]
      [] x.t = "inf" -> [ok |-> FALSE, val |-> 0, exc |-> "OverflowError"]
      [] x.t = "bigint" -> [ok |-> TRUE, val |-> 1000000000, exc |-> "none"]
      [] OTHER -> [ok |-> FALSE, val |-> 0, exc |-> "TypeError"]

\* The text an f-string gives for a request value: 70 and "70" print alike.
Fmt(x) ==
    CASE x.t \in {"int", "intstr"} -> [k |-> "int", v |-> x.v]
      [] x.t \in {"float", "decstr"} -> [k |-> "dec", v |-> x.v]
      [] OTHER -> [k |-> x.t, v |-> 0]

NoArg == [k |-> "none", v |-> 0]
Msg(text, arg) == [text |-> text, arg |-> arg]

\* dict.get(key, default) on a request body.
GetOr(x, default) == IF x.t = "absent" THEN default ELSE x

-----------------------------------------------------------------------------
(* The document store *)

DeviceIds == {"ESP32001", "ESP32002"}

NoData == [f \in {} |-> 0]
NoDoc == [exists |-> FALSE, data |-> NoData]

\* Mutant: set without merge, the document becomes the supplied fields.
SetReplaces(doc, partial) == [exists |-> TRUE, data |-> partial]

\* Mutant: the speed is written only when the document has none yet.
MergeSkipsSpeed(doc, partial) ==
    [exists |-> TRUE,
     data |-> [f \in (DOMAIN doc.data) \cup (DOMAIN partial) |->
                 IF f \in DOMAIN partial /\ ~(f = "feederspeed" /\ f \in DOMAIN doc.data)
                   THEN partial[f] ELSE doc.data[f]]]

\* DocumentReference.set(partial, merge=True): the supplied fields are
\* written, the others kept; the document is created when absent.
Merge(doc, partial) ==
    [exists |-> TRUE,
     data |-> [f \in (DOMAIN doc.data) \cup (DOMAIN partial) |->
                 IF f \in DOMAIN partial THEN partial[f] ELSE doc.data[f]]]

\* dict.get(field, default) on a stored document.
Field(data, f, default) == IF f \in DOMAIN data THEN data[f] ELSE default

-----------------------------------------------------------------------------
(* Responses *)

Json(ep, code, status, message) ==
    [ep |-> ep, code |-> code, status |-> status, message |-> message,
     speed |-> 0, state |-> "none"]

NoResp == Json("none", 0, "none", Msg("", NoArg))

Unauthorized(ep) == Json(ep, 401, "error", Msg("Unauthorized", NoArg))
NotInitialized(ep) ==
    Json(ep, 500, "error", Msg("Firestore not initialized on server", NoArg))
\* Mutant: the exception is swallowed behind a success response.
RaisedMasked(ep, exc) == Json(ep, 200, "success", Msg("str(e)", [k |-> exc, v |-> 0]))

\* except Exception as e: jsonify(status "error", message str(e)), 500
Raised(ep, exc) == Json(ep, 500, "error", Msg("str(e)", [k |-> exc, v |-> 0]))

\* Mutant: every caller passes for logged in.
AlwaysLoggedIn == TRUE

\* api_login_required: "user" in session
LoggedIn == "user" \in DOMAIN session

-----------------------------------------------------------------------------
(* Requests in flight: the server handles requests in threads, so a second *)
(* request can be taken up while the first has not made its write yet.     *)

Threads == 1..MaxInFlight
Idle == [ep |-> "idle"]
NoRequests == [th \in Threads |-> Idle]
Busy == {th \in Threads : inflight[th] # Idle}

\* The thread that takes up the next request.
FreeThread == CHOOSE th \in Threads \ Busy : \A other \in Threads \ Busy : th <= other

-----------------------------------------------------------------------------
(* Initial state: the module has been imported, the store holds the        *)
(* registered accounts and no device document, nobody is logged in.        *)

Emails == {"op@farm", "x@farm"}
Passwords == {"pw1", "pw2"}
User(email, password, role) == [email |-> email, password |-> password, role |-> role]
Registered == <<User("op@farm", "pw1", "worker")>>

\* FIRESTORE_LOGIN_DISABLED = False
FIRESTORE_LOGIN_DISABLED == FALSE

Init ==
    /\ dbAvailable \in BOOLEAN
    /\ loginEnvOff \in BOOLEAN
    /\ users = Registered
    /\ session = NoData
    /\ now = 0
    /\ devices = [d \in DeviceIds |-> NoDoc]
    /\ readings = [d \in DeviceIds |-> <<>>]
    /\ resp = NoResp
    /\ inflight = NoRequests

\* Time passes between two requests.
Tick ==
    /\ now < MaxTime
    /\ now' = now + 1
    /\ UNCHANGED <<inflight, dbAvailable, loginEnvOff, users, session, devices, readings, resp>>

-----------------------------------------------------------------------------
(* Authentication routes *)

Page(ep, template, error) == Json(ep, 200, "page", Msg(template, [k |-> error, v |-> 0]))
Redirect(ep, target) == Json(ep, 302, "redirect", Msg(target, NoArg))

\* db.collection("users").where("email", "==", email).limit(1).stream()
UsersWithEmail(email) == {i \in 1..Len(users) : users[i].email = email}

\* /login: a POST carries the form fields email and password ("" when not
\* sent); q is the outcome of the users query.
Login(method, email, password, q) ==
    /\ IF FIRESTORE_LOGIN_DISABLED \/ loginEnvOff
         THEN /\ resp' = Page("login", "login.html", "Login temporarily disabled")
              /\ UNCHANGED session
       ELSE IF method = "GET"
         THEN /\ resp' = Page("login", "login.html", "")
              /\ UNCHANGED session
       ELSE IF email = "" \/ password = ""
         THEN /\ resp' = Page("login", "login.html", "Please enter email and password")
              /\ UNCHANGED session
       ELSE IF ~dbAvailable
         THEN /\ resp' = Page("login", "login.html", "Firestore not initialized on server")
              /\ UNCHANGED session
       ELSE IF q = "quota"
         THEN /\ resp' = Page("login", "login.html", "Database quota exceeded")
              /\ UNCHANGED session
       ELSE IF q = "error"
         THEN /\ resp' = Page("login", "login.html", "Firestore error")
              /\ UNCHANGED session
       ELSE IF UsersWithEmail(email) = {}
         THEN /\ resp' = Page("login", "login.html", "Invalid email or password")
              /\ UNCHANGED session
       ELSE \E i \in UsersWithEmail(email) :
              IF users[i].password # password
                THEN /\ resp' = Page("login", "login.html", "Invalid email or password")
                     /\ UNCHANGED session
                ELSE /\ session' = [k \in DOMAIN session \cup {"user", "role"} |->
                                      IF k = "user" THEN email
                                      ELSE IF k = "role" THEN users[i].role
                                      ELSE session[k]]
                     /\ resp' = Redirect("login", "dashboard")
    /\ UNCHANGED <<inflight, dbAvailable, loginEnvOff, users, now, devices, readings>>

\* GET /logout: session.clear()
Logout ==
    /\ session' = NoData
    /\ resp' = Redirect("logout", "login")
    /\ UNCHANGED <<inflight, dbAvailable, loginEnvOff, users, now, devices, readings>>

\* GET /: redirect to the login page
Home ==
    /\ resp' = Redirect("home", "login")
    /\ UNCHANGED <<inflight, dbAvailable, loginEnvOff, users, session, now, devices, readings>>

\* /register: the form fields email and password ("" when not sent); q is
\* the outcome of the store calls. A new account gets the role "worker".
Register(method, email, password, q) ==
    /\ IF method = "GET"
         THEN /\ resp' = Page("register", "register.html", "")
              /\ UNCHANGED users
       ELSE IF email = "" \/ password = ""
         THEN /\ resp' = Page("register", "register.html", "Please fill all fields")
              /\ UNCHANGED users
       ELSE IF ~dbAvailable
         THEN /\ resp' = Page("register", "register.html", "Firestore not initialized on server")
              /\ UNCHANGED users
       ELSE IF q = "quota"
         THEN /\ resp' = Page("register", "register.html",
                              "Database quota exceeded. Please try again later.")
              /\ UNCHANGED users
       ELSE IF q = "error"
         THEN /\ resp' = Page("register", "register.html", "Firestore error")
              /\ UNCHANGED users
       ELSE IF UsersWithEmail(email) # {}
         THEN /\ resp' = Page("register", "register.html", "Email already exists")
              /\ UNCHANGED users
       ELSE /\ Len(users) < MaxUsers
            /\ users' = Append(users, User(email, password, "worker"))
            /\ resp' = Redirect("register", "login")
    /\ UNCHANGED <<inflight, dbAvailable, loginEnvOff, session, now, devices, readings>>

\* /resetpassword: shows the reset link, whose token names the email, to
\* whoever asks for a registered email.
ResetPassword(method, email, q) ==
    /\ resp' =
         IF method = "GET" THEN Page("resetpassword", "reset.html", "")
         ELSE IF email = "" THEN Page("resetpassword", "reset.html", "Please enter your email")
         ELSE IF ~dbAvailable
           THEN Page("resetpassword", "reset.html", "Firestore not initialized on server")
         ELSE IF q = "quota"
           THEN Page("resetpassword", "reset.html",
                     "Database quota exceeded. Please try again later.")
         ELSE IF q = "error" THEN Page("resetpassword", "reset.html", "Firestore error")
         ELSE IF UsersWithEmail(email) = {}
           THEN Page("resetpassword", "reset.html", "Email not found")
         ELSE Json("resetpassword", 200, "page", Msg("resetlink", [k |-> email, v |-> 0]))
    /\ UNCHANGED <<inflight, dbAvailable, loginEnvOff, users, session, now, devices, readings>>

\* The tokens a caller can present: one that does not verify, and the token
\* /resetpassword hands out for a registered email.
Tokens == {""} \cup {e \in Emails : UsersWithEmail(e) # {}}

\* /changepassword/<token>: token is the email the token was signed for, ""
\* when it does not verify or is older than ten minutes.
ChangePassword(token, method, password, q) ==
    /\ IF token = ""
         THEN /\ resp' = Json("changepassword", 200, "text",
                              Msg("Invalid or expired token", NoArg))
              /\ UNCHANGED users
       ELSE IF method = "GET"
         THEN /\ resp' = Page("changepassword", "change.html", "")
              /\ UNCHANGED users
       ELSE IF password = ""
         THEN /\ resp' = Page("changepassword", "change.html", "Please enter a new password")
              /\ UNCHANGED users
       ELSE IF ~dbAvailable
         THEN /\ resp' = Page("changepassword", "change.html",
                              "Firestore not initialized on server")
              /\ UNCHANGED users
       ELSE IF q = "quota"
         THEN /\ resp' = Page("changepassword", "change.html",
                              "Database quota exceeded. Please try again later.")
              /\ UNCHANGED users
       ELSE IF q = "error"
         THEN /\ resp' = Page("changepassword", "change.html", "Firestore error")
              /\ UNCHANGED users
       ELSE IF UsersWithEmail(token) = {}
         THEN /\ resp' = Json("changepassword", 200, "text", Msg("User not found", NoArg))
              /\ UNCHANGED users
       ELSE \E i \in UsersWithEmail(token) :
              /\ users' = [users EXCEPT ![i].password = password]
              /\ resp' = Redirect("changepassword", "login")
    /\ UNCHANGED <<inflight, dbAvailable, loginEnvOff, session, now, devices, readings>>

-----------------------------------------------------------------------------
(* Motor / feeder control of devices/ESP32001 *)

DefaultSpeed == 50     \* data.get("speed", 50)
MinSpeed == 0
MaxSpeed == 100

\* A parsed request body of a control request: data.get("action") and
\* data.get("speed"); parse is "error" when reading the body raises.
Body(parse, action, speed) == [parse |-> parse, action |-> action, speed |-> speed]

Out(r, doc) == [resp |-> r, doc |-> doc]

\* A store call can raise only in a request that gets to make it.
Failures(reached) == IF reached THEN BOOLEAN ELSE {FALSE}

\* The actions that write to the document.
WritesDocument(body) == body.parse = "ok" /\ body.action \in {"off", "on", "setspeed"}

\* Mutant: only the upper limit is checked.
SpeedAboveMax(speedvalue) == speedvalue > MaxSpeed

\* if speedvalue < 0 or speedvalue > 100
SpeedOutOfRange(speedvalue) == speedvalue < MinSpeed \/ speedvalue > MaxSpeed

\* Mutant: a set speed always switches on.
StatusAlwaysOn(speedvalue) == "on"

\* "on" if speedvalue > 0 else "off"
StatusForSpeed(speedvalue) == IF speedvalue > 0 THEN "on" ELSE "off"

\* Mutant: an unknown action is accepted.
InvalidActionAccepted(ep) == Json(ep, 200, "success", Msg("Invalid action", NoArg))

\* The answer to an action that is none of off, on, setspeed.
InvalidAction(ep) == Json(ep, 400, "error", Msg("Invalid action", NoArg))

\* Mutant: "off" switches off and stores the default speed.
FeederOffDefaultSpeed(t) ==
    [feederspeed |-> DefaultSpeed, feederstatus |-> "off", updatedAt |-> t]

\* The fields /controlfeeder writes for each action.
FeederOffFields(t) == [feederspeed |-> 0, feederstatus |-> "off", updatedAt |-> t]
\* Mutant: "on" writes the default speed, whatever the request gives.
FeederOnDefaultSpeed(speedvalue, t) ==
    [feederspeed |-> DefaultSpeed, feederstatus |-> "on", updatedAt |-> t]
\* Mutant: "on" switches on and leaves the speed alone.
FeederOnStatusOnly(speedvalue, t) == [feederstatus |-> "on", updatedAt |-> t]

FeederOnFields(speedvalue, t) ==
    [feederspeed |-> speedvalue, feederstatus |-> "on", updatedAt |-> t]
FeederSetSpeedFields(speedvalue, t) ==
    [feederspeed |-> speedvalue, feederstatus |-> StatusForSpeed(speedvalue),
     updatedAt |-> t]

\* The handler's work on the document doc at time t; storeFails: the write
\* raises. Gives the response and the document afterwards.
ControlFeederOutcome(body, doc, t, storeFails) ==
    LET ep == "controlfeeder"
        speed == GetOr(body.speed, PyIntV(DefaultSpeed))
        n == PyInt(speed)
    IN  IF ~LoggedIn THEN Out(Unauthorized(ep), doc)
        ELSE IF ~dbAvailable THEN Out(NotInitialized(ep), doc)
        ELSE IF body.parse = "error" THEN Out(Raised(ep, "BadRequest"), doc)
        ELSE IF body.action = "off" THEN
            IF storeFails THEN Out(Raised(ep, "StoreError"), doc)
            ELSE Out(Json(ep, 200, "success", Msg("Feeder turned OFF", NoArg)),
                     Merge(doc, FeederOffFields(t)))
        ELSE IF body.action = "on" THEN
            IF ~n.ok THEN Out(Raised(ep, n.exc), doc)
            ELSE IF storeFails THEN Out(Raised(ep, "StoreError"), doc)
            ELSE Out(Json(ep, 200, "success", Msg("Feeder turned ON at {speed}", Fmt(speed))),
                     Merge(doc, FeederOnFields(n.val, t)))
        ELSE IF body.action = "setspeed" THEN
            IF ~n.ok THEN Out(Raised(ep, n.exc), doc)
            ELSE IF SpeedOutOfRange(n.val)
              THEN Out(Json(ep, 400, "error", Msg("Speed must be 0-100", NoArg)), doc)
            ELSE IF storeFails THEN Out(Raised(ep, "StoreError"), doc)
            ELSE Out(Json(ep, 200, "success",
                          Msg("Feeder speed set to {speedvalue}", [k |-> "int", v |-> n.val])),
                     Merge(doc, FeederSetSpeedFields(n.val, t)))
        ELSE Out(InvalidAction(ep), doc)

\* POST /controlfeeder with this body, the write raising or not
ControlFeederReq(body, storeFails) ==
    /\ LET o == ControlFeederOutcome(body, devices["ESP32001"], now, storeFails)
       IN  /\ resp' = o.resp
           /\ devices' = [devices EXCEPT !["ESP32001"] = o.doc]
    /\ UNCHANGED <<inflight, dbAvailable, loginEnvOff, users, session, now, readings>>

ControlFeeder(body) ==
    \E storeFails \in Failures(WritesDocument(body)) : ControlFeederReq(body, storeFails)

\* The reply of the two status endpoints.
Status(ep, speed, state) ==
    [Json(ep, 200, "success", Msg("", NoArg)) EXCEPT !.speed = speed, !.state = state]

\* Mutant: the poll is served to anyone.
GetFeedingStatusOpen(doc, readFails) ==
    LET ep == "getfeedingstatus"
    IN  IF ~dbAvailable THEN NotInitialized(ep)
        ELSE IF readFails THEN Raised(ep, "StoreError")
        ELSE IF doc.exists
          THEN Status(ep, Field(doc.data, "feederspeed", 0),
                      Field(doc.data, "feederstatus", "off"))
        ELSE Status(ep, 0, "off")

\* Mutant: a failed read is answered with the defaults.
GetFeedingStatusDefaultsOnError(doc, readFails) ==
    LET ep == "getfeedingstatus"
    IN  IF ~LoggedIn THEN Unauthorized(ep)
        ELSE IF ~dbAvailable \/ readFails \/ ~doc.exists THEN Status(ep, 0, "off")
        ELSE Status(ep, Field(doc.data, "feederspeed", 0),
                    Field(doc.data, "feederstatus", "off"))

GetFeedingStatusOutcome(doc, readFails) ==
    LET ep == "getfeedingstatus"
    IN  IF ~LoggedIn THEN Unauthorized(ep)
        ELSE IF ~dbAvailable THEN NotInitialized(ep)
        ELSE IF readFails THEN Raised(ep, "StoreError")
        ELSE IF doc.exists
          THEN Status(ep, Field(doc.data, "feederspeed", 0),
                      Field(doc.data, "feederstatus", "off"))
        ELSE Status(ep, 0, "off")

\* GET /getfeedingstatus, the read raising or not
GetFeedingStatusReq(readFails) ==
    /\ resp' = GetFeedingStatusOutcome(devices["ESP32001"], readFails)
    /\ UNCHANGED <<inflight, dbAvailable, loginEnvOff, users, session, now, devices, readings>>

GetFeedingStatus == \E readFails \in BOOLEAN : GetFeedingStatusReq(readFails)

-----------------------------------------------------------------------------
(* The motor: the same handlers over the motor fields *)

MotorOffFields(t) == [motorspeed |-> 0, motorstatus |-> "off", updatedAt |-> t]
MotorOnFields(speedvalue, t) ==
    [motorspeed |-> speedvalue, motorstatus |-> "on", updatedAt |-> t]
MotorSetSpeedFields(speedvalue, t) ==
    [motorspeed |-> speedvalue, motorstatus |-> StatusForSpeed(speedvalue),
     updatedAt |-> t]

ControlMotorOutcome(body, doc, t, storeFails) ==
    LET ep == "controlmotor"
        speed == GetOr(body.speed, PyIntV(DefaultSpeed))
        n == PyInt(speed)
    IN  IF ~LoggedIn THEN Out(Unauthorized(ep), doc)
        ELSE IF ~dbAvailable THEN Out(NotInitialized(ep), doc)
        ELSE IF body.parse = "error" THEN Out(Raised(ep, "BadRequest"), doc)
        ELSE IF body.action = "off" THEN
            IF storeFails THEN Out(Raised(ep, "StoreError"), doc)
            ELSE Out(Json(ep, 200, "success", Msg("Motor turned OFF", NoArg)),
                     Merge(doc, MotorOffFields(t)))
        ELSE IF body.action = "on" THEN
            IF ~n.ok THEN Out(Raised(ep, n.exc), doc)
            ELSE IF storeFails THEN Out(Raised(ep, "StoreError"), doc)
            ELSE Out(Json(ep, 200, "success", Msg("Motor turned ON at {speed}", Fmt(speed))),
                     Merge(doc, MotorOnFields(n.val, t)))
        ELSE IF body.action = "setspeed" THEN
            IF ~n.ok THEN Out(Raised(ep, n.exc), doc)
            ELSE IF SpeedOutOfRange(n.val)
              THEN Out(Json(ep, 400, "error", Msg("Speed must be 0-100", NoArg)), doc)
            ELSE IF storeFails THEN Out(Raised(ep, "StoreError"), doc)
            ELSE Out(Json(ep, 200, "success",
                          Msg("Speed set to {speedvalue}", [k |-> "int", v |-> n.val])),
                     Merge(doc, MotorSetSpeedFields(n.val, t)))
        ELSE Out(InvalidAction(ep), doc)

\* POST /controlmotor with this body, the write raising or not
ControlMotorReq(body, storeFails) ==
    /\ LET o == ControlMotorOutcome(body, devices["ESP32001"], now, storeFails)
       IN  /\ resp' = o.resp
           /\ devices' = [devices EXCEPT !["ESP32001"] = o.doc]
    /\ UNCHANGED <<inflight, dbAvailable, loginEnvOff, users, session, now, readings>>

ControlMotor(body) ==
    \E storeFails \in Failures(WritesDocument(body)) : ControlMotorReq(body, storeFails)

\* Mutant: a missing document is answered as not found.
GetMotorStatusNotFound(doc, readFails) ==
    LET ep == "getmotorstatus"
    IN  IF ~LoggedIn THEN Unauthorized(ep)
        ELSE IF ~dbAvailable THEN NotInitialized(ep)
        ELSE IF readFails THEN Raised(ep, "StoreError")
        ELSE IF doc.exists
          THEN Status(ep, Field(doc.data, "motorspeed", 0),
                      Field(doc.data, "motorstatus", "off"))
        ELSE Json(ep, 404, "error", Msg("Not found", NoArg))

GetMotorStatusOutcome(doc, readFails) ==
    LET ep == "getmotorstatus"
    IN  IF ~LoggedIn THEN Unauthorized(ep)
        ELSE IF ~dbAvailable THEN NotInitialized(ep)
        ELSE IF readFails THEN Raised(ep, "StoreError")
        ELSE IF doc.exists
          THEN Status(ep, Field(doc.data, "motorspeed", 0),
                      Field(doc.data, "motorstatus", "off"))
        ELSE Status(ep, 0, "off")

\* GET /getmotorstatus, the read raising or not
GetMotorStatusReq(readFails) ==
    /\ resp' = GetMotorStatusOutcome(devices["ESP32001"], readFails)
    /\ UNCHANGED <<inflight, dbAvailable, loginEnvOff, users, session, now, devices, readings>>

GetMotorStatus == \E readFails \in BOOLEAN : GetMotorStatusReq(readFails)

-----------------------------------------------------------------------------
(* The feeding schedule, kept in devices/ESP32001 *)

\* The body of /savefeedingschedule: the two times are "" when not sent.
ScheduleBody(parse, firstfeed, secondfeed, duration) ==
    [parse |-> parse, firstfeed |-> firstfeed, secondfeed |-> secondfeed,
     duration |-> duration]

\* not value: None, 0 and 0.0 are false; a string is false only when empty.
Falsy(x) == x.t \in {"absent", "null"} \/ (x.t \in {"int", "float"} /\ x.v = 0)

\* Mutant: saving a schedule also starts the feeder.
ScheduleFieldsStartFeeder(body, duration, t) ==
    [feedingschedule |-> [firstfeed |-> body.firstfeed, secondfeed |-> body.secondfeed,
                          duration |-> duration],
     scheduleenabled |-> TRUE,
     feederstatus |-> "on",
     feederspeed |-> DefaultSpeed,
     updatedAt |-> t]

ScheduleFields(body, duration, t) ==
    [feedingschedule |-> [firstfeed |-> body.firstfeed, secondfeed |-> body.secondfeed,
                          duration |-> duration],
     scheduleenabled |-> TRUE,
     updatedAt |-> t]

SaveFeedingScheduleOutcome(body, doc, t, storeFails) ==
    LET ep == "savefeedingschedule"
        n == PyInt(body.duration)
    IN  IF ~LoggedIn THEN Out(Unauthorized(ep), doc)
        ELSE IF ~dbAvailable THEN Out(NotInitialized(ep), doc)
        ELSE IF body.parse = "error" THEN Out(Raised(ep, "BadRequest"), doc)
        ELSE IF body.firstfeed = "" \/ body.secondfeed = "" \/ Falsy(body.duration)
          THEN Out(Json(ep, 400, "error", Msg("All fields required", NoArg)), doc)
        ELSE IF ~n.ok THEN Out(Raised(ep, n.exc), doc)
        ELSE IF storeFails THEN Out(Raised(ep, "StoreError"), doc)
        ELSE Out(Json(ep, 200, "success", Msg("Feeding schedule saved", NoArg)),
                 Merge(doc, ScheduleFields(body, n.val, t)))

\* POST /savefeedingschedule with this body, the write raising or not
SaveFeedingScheduleReq(body, storeFails) ==
    /\ LET o == SaveFeedingScheduleOutcome(body, devices["ESP32001"], now, storeFails)
       IN  /\ resp' = o.resp
           /\ devices' = [devices EXCEPT !["ESP32001"] = o.doc]
    /\ UNCHANGED <<inflight, dbAvailable, loginEnvOff, users, session, now, readings>>

SaveFeedingSchedule(body) ==
    \E storeFails \in Failures(body.parse = "ok") : SaveFeedingScheduleReq(body, storeFails)

-----------------------------------------------------------------------------
(* Requests handled at the same time. app.run serves each request in a     *)
(* thread of its own. Each of the three writing handlers makes one store   *)
(* call, a set(fields, merge=True) whose fields are fixed before the call; *)
(* /register makes two, the query for the email and the add.               *)

WriteEndpoints == {"controlfeeder", "controlmotor", "savefeedingschedule"}

\* What the handler of ep answers and writes for this body at time t. None
\* of the three reads the document, so the fields do not depend on it.
WriteOutcome(ep, body, t) ==
    CASE ep = "controlfeeder" -> ControlFeederOutcome(body, NoDoc, t, FALSE)
      [] ep = "controlmotor" -> ControlMotorOutcome(body, NoDoc, t, FALSE)
      [] ep = "savefeedingschedule" -> SaveFeedingScheduleOutcome(body, NoDoc, t, FALSE)

\* A thread takes up a request to ep and runs its handler up to the store
\* call: the login and the body are checked, the fields and the time are
\* fixed.
WriteBegin(ep, body) ==
    /\ Busy # Threads
    /\ LET o == WriteOutcome(ep, body, now)
       IN  /\ o.doc.exists
           /\ inflight' = [inflight EXCEPT ![FreeThread] =
                              [ep |-> ep, fields |-> o.doc.data, resp |-> o.resp]]
    /\ UNCHANGED <<dbAvailable, loginEnvOff, users, session, now, devices, readings, resp>>

\* The thread makes its store call and answers.
WriteEnd(th, storeFails) ==
    /\ inflight[th].ep \in WriteEndpoints
    /\ IF storeFails
         THEN /\ resp' = Raised(inflight[th].ep, "StoreError")
              /\ UNCHANGED devices
         ELSE /\ resp' = inflight[th].resp
              /\ devices' = [devices EXCEPT !["ESP32001"] = Merge(@, inflight[th].fields)]
    /\ inflight' = [inflight EXCEPT ![th] = Idle]
    /\ UNCHANGED <<dbAvailable, loginEnvOff, users, session, now, readings>>

\* The accounts being added by requests in flight.
Registering == {th \in Busy : inflight[th].ep = "register"}

\* POST /register up to and including the query for the email, which finds
\* no account.
RegisterBegin(email, password) ==
    /\ Busy # Threads
    /\ email # "" /\ password # ""
    /\ dbAvailable
    /\ UsersWithEmail(email) = {}
    /\ Len(users) + Cardinality(Registering) < MaxUsers
    /\ inflight' = [inflight EXCEPT ![FreeThread] =
                       [ep |-> "register", email |-> email, password |-> password]]
    /\ UNCHANGED <<dbAvailable, loginEnvOff, users, session, now, devices, readings, resp>>

\* The add of the account, and the answer; q is the outcome of the add.
RegisterEnd(th, q) ==
    /\ inflight[th].ep = "register"
    /\ IF q = "quota"
         THEN /\ resp' = Page("register", "register.html",
                              "Database quota exceeded. Please try again later.")
              /\ UNCHANGED users
       ELSE IF q = "error"
         THEN /\ resp' = Page("register", "register.html", "Firestore error")
              /\ UNCHANGED users
       ELSE /\ users' = Append(users, User(inflight[th].email, inflight[th].password, "worker"))
            /\ resp' = Redirect("register", "login")
    /\ inflight' = [inflight EXCEPT ![th] = Idle]
    /\ UNCHANGED <<dbAvailable, loginEnvOff, session, now, devices, readings>>

-----------------------------------------------------------------------------
(* Sensor ingestion *)

\* A float or None.
None == [some |-> FALSE, v |-> 0]
Some(v) == [some |-> TRUE, v |-> v]

\* The floats that are no finite number: inf is above every number, and
\* every comparison with nan is false.
Inf == 1000000000
NaN == -1000000001
PyLt(a, b) == a # NaN /\ b # NaN /\ a < b
PyGt(a, b) == a # NaN /\ b # NaN /\ a > b

\* float(value), in tenths, or the exception it raises: TypeError for None,
\* ValueError for a string that is no number, OverflowError for an integer
\* above the largest float.
PyFloat(x) ==
    CASE x.t = "int" -> [ok |-> TRUE, val |-> 10 * x.v, exc |-> "none"]
      [] x.t = "intstr" -> [ok |-> TRUE, val |-> 10 * x.v, exc |-> "none"]
      [] x.t \in {"float", "decstr"} -> [ok |-> TRUE, val |-> x.v, exc |-> "none"]
      [] x.t = "inf" -> [ok |-> TRUE, val |-> x.v * Inf, exc |-> "none"]
      [] x.t = "nan" -> [ok |-> TRUE, val |-> NaN, exc |-> "none"]
      [] x.t = "badstr" -> [ok |-> FALSE, val |-> 0, exc |-> "ValueError"]
      [] x.t = "bigint" -> [ok |-> FALSE, val |-> 0, exc |-> "OverflowError"]
      [] OTHER -> [ok |-> FALSE, val |-> 0, exc |-> "TypeError"]

\* An exception that leaves the function.
Throws(exc) == [some |-> FALSE, v |-> 0, raised |-> exc]
IsThrown(r) == "raised" \in DOMAIN r

\* except (TypeError, ValueError)
Caught(exc) == exc \in {"TypeError", "ValueError"}

to_float_or_none(value) ==
    LET f == PyFloat(value)
    IN  IF f.ok THEN Some(f.val)
        ELSE IF Caught(f.exc) THEN None
        ELSE Throws(f.exc)

TurbidityMax == 30000    \* 3000, in tenths

\* Mutant: the value is parsed and not clamped.
normalize_unclamped(value) ==
    LET f == PyFloat(value) IN IF f.ok THEN Some(f.val) ELSE None

normalize_turbidity(value) ==
    LET f == PyFloat(value)
    IN  IF ~f.ok THEN (IF Caught(f.exc) THEN None ELSE Throws(f.exc))
        ELSE IF PyLt(f.val, 0) THEN Some(0)
        ELSE IF PyGt(f.val, TurbidityMax) THEN Some(TurbidityMax)
        ELSE Some(f.val)

\* docdata.get(field) of a stored reading: the float or None read back.
AsValue(stored) == IF stored.some THEN PyFloatV(stored.v) ELSE Null

\* The body of POST /addreading. parse is what request.get_json() gives:
\* "object" a non-empty JSON object, "falsy" an empty object, list or null,
\* "nojson" a body that is not sent as JSON, "malformed" a body that is no
\* JSON, "array" a non-empty JSON array. deviceid is "" when the key is
\* absent and "/" for a value that is no document id.
Reading(parse, deviceid, temperature, ph, ammonia, turbidity, distance) ==
    [parse |-> parse, deviceid |-> deviceid, temperature |-> temperature, ph |-> ph,
     ammonia |-> ammonia, turbidity |-> turbidity, distance |-> distance]

ReadingDoc(data, t) ==
    [temperature |-> to_float_or_none(data.temperature),
     ph |-> to_float_or_none(data.ph),
     ammonia |-> to_float_or_none(data.ammonia),
     turbidity |-> normalize_turbidity(data.turbidity),
     distance |-> to_float_or_none(data.distance),
     createdAt |-> t]

\* One of the five conversions lets its exception out.
ParseRaises(data) ==
    LET doc == ReadingDoc(data, 0)
    IN  \E f \in {"temperature", "ph", "ammonia", "turbidity", "distance"} : IsThrown(doc[f])

\* data.get("deviceid", "ESP32001")
DeviceOf(data) == IF data.deviceid = "" THEN "ESP32001" ELSE data.deviceid

\* Mutant: the empty body is not turned away.
NotDataNever(data) == FALSE

\* if not data: None, {} and [] are all "no data".
NotData(data) == data.parse = "falsy"

\* Mutant: the reading is written to one fixed document of the collection.
StoreReadingFixedId(rds, deviceid, doc) == [rds EXCEPT ![deviceid] = <<doc>>]

\* collection("readings").document().set(doc): a new document with a
\* generated id.
StoreReading(rds, deviceid, doc) == [rds EXCEPT ![deviceid] = Append(@, doc)]

\* The handler's work; oldFlask: get_json() gives None for a body that is not
\* sent as JSON (Flask before 2.1) instead of raising; storeFails: the write
\* raises. Gives the response and the readings afterwards.
AddReadingOutcome(data, rds, t, oldFlask, storeFails) ==
    LET ep == "addreading"
        deviceid == DeviceOf(data)
        nodata == Json(ep, 400, "error", Msg("No data provided", NoArg))
    IN  IF ~dbAvailable THEN Out(NotInitialized(ep), rds)
        ELSE IF data.parse = "malformed" THEN Out(Raised(ep, "BadRequest"), rds)
        ELSE IF data.parse = "nojson" THEN
            IF oldFlask THEN Out(nodata, rds)
            ELSE Out(Raised(ep, "UnsupportedMediaType"), rds)
        ELSE IF NotData(data) THEN Out(nodata, rds)
        ELSE IF data.parse = "array" THEN Out(Raised(ep, "AttributeError"), rds)
        ELSE IF ParseRaises(data) THEN Out(Raised(ep, "OverflowError"), rds)
        ELSE IF deviceid \notin DeviceIds THEN Out(Raised(ep, "ValueError"), rds)
        ELSE IF storeFails THEN Out(Raised(ep, "StoreError"), rds)
        ELSE Out(Json(ep, 200, "success",
                      Msg("Reading saved for {deviceid}", [k |-> deviceid, v |-> 0])),
                 StoreReading(rds, deviceid, ReadingDoc(data, t)))

\* The number of readings in the store.
Stored == Len(readings["ESP32001"]) + Len(readings["ESP32002"])

\* The handler run on the store as it is.
AddReadingHandled(data, oldFlask, storeFails) ==
    /\ LET o == AddReadingOutcome(data, readings, now, oldFlask, storeFails)
       IN  /\ resp' = o.resp
           /\ readings' = o.doc
    /\ UNCHANGED <<inflight, dbAvailable, loginEnvOff, users, session, now, devices>>

\* POST /addreading with this body
AddReadingReq(data, oldFlask, storeFails) ==
    /\ Stored < MaxReadings
    /\ AddReadingHandled(data, oldFlask, storeFails)

AddReading(data) ==
    \E oldFlask \in (IF data.parse = "nojson" THEN BOOLEAN ELSE {TRUE}),
       storeFails \in Failures(data.parse = "object" /\ DeviceOf(data) \in DeviceIds) :
        AddReadingReq(data, oldFlask, storeFails)

-----------------------------------------------------------------------------
(* The pages and JSON views over the stored readings *)

Min(a, b) == IF a < b THEN a ELSE b

\* list(reversed(data))
Reverse(s) == [i \in 1..Len(s) |-> s[Len(s) + 1 - i]]

\* data[-n:]
LastN(s, n) == SubSeq(s, Len(s) - Min(n, Len(s)) + 1, Len(s))

\* order_by("createdAt", DESCENDING): the orders in which the documents of
\* a collection can come back. Documents with equal createdAt come in the
\* order of their generated ids, which is any order.
\* The orders of the documents with index in S: one that no other is newer
\* than comes first.
RECURSIVE DescFrom(_, _)
DescFrom(docs, S) ==
    IF S = {} THEN {<<>>}
    ELSE UNION {{<<i>> \o rest : rest \in DescFrom(docs, S \ {i})} :
                  i \in {k \in S : \A j \in S : docs[k].createdAt >= docs[j].createdAt}}

OrderedDesc(docs) == DescFrom(docs, 1..Len(docs))

\* order_by("createdAt", DESCENDING).limit(limit).stream()
QueryLatest(docs, limit) ==
    {[i \in 1..Min(limit, Len(docs)) |-> docs[p[i]]] : p \in OrderedDesc(docs)}

\* order_by("createdAt", DESCENDING).stream(), with no limit
QueryAll(docs) == QueryLatest(docs, Len(docs))

\* The clock counts half seconds; strftime("%Y-%m-%d %H:%M:%S") keeps the
\* whole seconds.
TicksPerSecond == 2
Strftime(t) == t \div TicksPerSecond

\* The dict a page builds from one stored reading.
Row(docdata) ==
    [temperature |-> docdata.temperature,
     ph |-> docdata.ph,
     ammonia |-> docdata.ammonia,
     turbidity |-> normalize_turbidity(AsValue(docdata.turbidity)),
     createdAt |-> Strftime(docdata.createdAt)]
Rows(docs) == [i \in 1..Len(docs) |-> Row(docs[i])]

\* The dict /apiultrasonicesp322 builds.
DistanceRow(docdata) ==
    [distance |-> docdata.distance, createdAt |-> Strftime(docdata.createdAt)]
DistanceRows(docs) == [i \in 1..Len(docs) |-> DistanceRow(docs[i])]

Labels(data) == [i \in 1..Len(data) |-> data[i].createdAt]

\* A rendered template or a JSON view: ctx holds what is passed on.
View(ep, code, status, template, ctx) ==
    [ep |-> ep, code |-> code, status |-> status, message |-> Msg(template, NoArg),
     speed |-> 0, state |-> "none", ctx |-> ctx]

\* An exception no handler catches: Flask answers 500.
InternalServerError(ep) == Json(ep, 500, "page", Msg("Internal Server Error", NoArg))

\* The turbidity thresholds of the dashboard alert, in tenths.
DangerAbove == 1000
WarningAbove == 500

Normal == [summary |-> "All systems normal.", alertcolor |-> "green"]
Warning == [summary |-> "Water is getting cloudy.", alertcolor |-> "orange"]
Danger == [summary |-> "Water is too cloudy! Danger", alertcolor |-> "gold"]

\* Mutant: the alert looks at the oldest reading passed on.
AlertFromFirst(data) ==
    IF data = <<>> THEN Normal
    ELSE LET last_turbidity == data[1].turbidity
         IN  IF ~last_turbidity.some THEN Normal
             ELSE IF PyGt(last_turbidity.v, DangerAbove) THEN Danger
             ELSE IF PyGt(last_turbidity.v, WarningAbove) THEN Warning
             ELSE Normal

\* Mutant: the warning starts at the danger threshold.
AlertDangerOnly(data) ==
    IF data = <<>> THEN Normal
    ELSE LET last_turbidity == data[Len(data)].turbidity
         IN  IF ~last_turbidity.some THEN Normal
             ELSE IF PyGt(last_turbidity.v, DangerAbove) THEN Danger
             ELSE Normal

\* summary and alertcolor of the dashboard, from data[-1]
Alert(data) ==
    IF data = <<>> THEN Normal
    ELSE LET last_turbidity == data[Len(data)].turbidity
         IN  IF ~last_turbidity.some THEN Normal
             ELSE IF PyGt(last_turbidity.v, DangerAbove) THEN Danger
             ELSE IF PyGt(last_turbidity.v, WarningAbove) THEN Warning
             ELSE Normal

\* feederalert of the dashboard, from devices/ESP32001
FeederAlert(doc, readFails) ==
    IF readFails THEN "Feeder status unavailable"
    ELSE IF /\ doc.exists
            /\ Field(doc.data, "feederstatus", "off") = "on"
            /\ Field(doc.data, "feederspeed", 0) > 0
      THEN "Feeding in progress at {feederspeed}% speed"
    ELSE "Feeder is currently OFF"

\* The hopper level below which the dashboard asks for a refill, in percent.
LowFeedBelow == 20

\* lowfeedalert of the dashboard, from devices/ESP32002: feedlevelpercent,
\* or waterlevelpercent when that is missing or 0.
LowFeedAlert(doc, readFails) ==
    IF readFails \/ ~doc.exists THEN FALSE
    ELSE LET feed == Field(doc.data, "feedlevelpercent", None)
             levelpercent == IF feed.some /\ feed.v # 0 THEN feed
                             ELSE Field(doc.data, "waterlevelpercent", None)
         IN  levelpercent.some /\ levelpercent.v < LowFeedBelow

\* What the dashboard renders when it has no readings to show.
DashboardEmpty(summary) ==
    View("dashboard", 200, "page", "dashboard.html",
         [readings |-> <<>>, summary |-> summary, alertcolor |-> "gray", labels |-> <<>>,
          feederalert |-> "Feeder status unavailable", lowfeedalert |-> FALSE])

\* Mutant: the query result is passed on as it came, newest first.
DashboardDataNewestFirst(docs) == Rows(docs)

\* data = list(reversed(data)): oldest first
DashboardData(docs) == Reverse(Rows(docs))

\* GET /dashboard. docs: what the readings query gives; q: how the query
\* ends ("late": it raises while the handler iterates over the result).
DashboardOutcome(docs, q, feederFails, hopperFails) ==
    LET ep == "dashboard"
        data == DashboardData(docs)
    IN  IF ~LoggedIn THEN Redirect(ep, "login")
        ELSE IF ~dbAvailable THEN DashboardEmpty("Firestore not initialized on server")
        ELSE IF q = "quota"
          THEN DashboardEmpty("Database quota exceeded. Please try again later.")
        ELSE IF q = "error" THEN DashboardEmpty("Error loading data.")
        ELSE IF q = "late" THEN InternalServerError(ep)
        ELSE View(ep, 200, "page", "dashboard.html",
                  [readings |-> LastN(data, ShortLimit),
                   summary |-> Alert(data).summary,
                   alertcolor |-> Alert(data).alertcolor,
                   labels |-> Labels(data),
                   feederalert |-> FeederAlert(devices["ESP32001"], feederFails),
                   lowfeedalert |-> LowFeedAlert(devices["ESP32002"], hopperFails)])

ViewQueryOutcomes == {"ok", "quota", "error", "late"}

\* Mutant: answering a page leaves a mark in the control document.
AnswerAndMark(r) ==
    /\ resp' = r
    /\ devices' = [devices EXCEPT !["ESP32001"] = Merge(@, [viewedAt |-> now])]
    /\ UNCHANGED <<inflight, dbAvailable, loginEnvOff, users, session, now, readings>>

\* A page or view changes nothing but the response.
Answer(r) ==
    /\ resp' = r
    /\ UNCHANGED <<inflight, dbAvailable, loginEnvOff, users, session, now, devices, readings>>

\* A page gets to query the store when its caller is logged in and there is
\* a db handle.
PageQueries == LoggedIn /\ dbAvailable

Dashboard ==
    \E docs \in QueryLatest(readings["ESP32001"], LatestLimit),
       q \in (IF PageQueries THEN ViewQueryOutcomes ELSE {"ok"}) :
        \E feederFails \in Failures(PageQueries /\ q = "ok"),
           hopperFails \in Failures(PageQueries /\ q = "ok") :
            Answer(DashboardOutcome(docs, q, feederFails, hopperFails))

\* GET /mosfet: the rows go to the template in the order of the query.
MosfetOutcome(docs, queryFails) ==
    LET ep == "mosfet"
    IN  IF ~LoggedIn THEN Redirect(ep, "login")
        ELSE IF ~dbAvailable
          THEN View(ep, 200, "page", "mosfet.html", [readings |-> <<>>])
        ELSE IF queryFails THEN InternalServerError(ep)
        ELSE View(ep, 200, "page", "mosfet.html", [readings |-> Rows(docs)])

Mosfet ==
    \E docs \in QueryLatest(readings["ESP32001"], LatestLimit),
       queryFails \in Failures(PageQueries) :
        Answer(MosfetOutcome(docs, queryFails))

\* What /controlfeeding renders on an error.
ControlFeedingError(error) ==
    View("controlfeeding", 200, "page", "control.html",
         [error |-> error, readings |-> <<>>, allreadings |-> <<>>,
          summary |-> "Error loading data", labels |-> <<>>])

\* GET /controlfeeding: two queries; the chart lists are built from the
\* reversed short list.
ControlFeedingPageOutcome(docs, alldocs, queryFails) ==
    LET ep == "controlfeeding"
        rds == Rows(docs)
    IN  IF ~LoggedIn THEN Redirect(ep, "login")
        ELSE IF ~dbAvailable THEN ControlFeedingError("Firestore not initialized on server")
        ELSE IF queryFails THEN ControlFeedingError("str(e)")
        ELSE View(ep, 200, "page", "control.html",
                  [error |-> "", readings |-> rds, allreadings |-> Rows(alldocs),
                   summary |-> "Feeding Motor Control Dashboard",
                   labels |-> Labels(Reverse(rds))])

ControlFeedingPage ==
    \E docs \in QueryLatest(readings["ESP32001"], ShortLimit),
       alldocs \in QueryLatest(readings["ESP32001"], LatestLimit),
       queryFails \in Failures(PageQueries) :
        Answer(ControlFeedingPageOutcome(docs, alldocs, queryFails))

\* GET /apilatestreadings: no login needed.
ApiLatestReadingsOutcome(docs, queryFails) ==
    LET ep == "apilatestreadings"
        data == Reverse(Rows(docs))
    IN  IF ~dbAvailable THEN NotInitialized(ep)
        ELSE IF queryFails THEN Raised(ep, "StoreError")
        ELSE View(ep, 200, "json", "", [readings |-> data, labels |-> Labels(data)])

ApiLatestReadings ==
    \E docs \in QueryLatest(readings["ESP32001"], LatestLimit),
       queryFails \in Failures(dbAvailable) :
        Answer(ApiLatestReadingsOutcome(docs, queryFails))

\* GET /historical: every reading, newest first; no login needed.
HistoricalOutcome(docs, queryFails) ==
    LET ep == "historical"
    IN  IF ~dbAvailable THEN NotInitialized(ep)
        ELSE IF queryFails THEN Raised(ep, "StoreError")
        ELSE View(ep, 200, "success", "", [readings |-> Rows(docs)])

Historical ==
    \E docs \in QueryAll(readings["ESP32001"]), queryFails \in Failures(dbAvailable) :
        Answer(HistoricalOutcome(docs, queryFails))

\* GET /apiultrasonicesp322: the distances of ESP32002; no login needed.
ApiUltrasonicOutcome(docs, queryFails) ==
    LET ep == "apiultrasonicesp322"
        data == Reverse(DistanceRows(docs))
    IN  IF ~dbAvailable THEN NotInitialized(ep)
        ELSE IF queryFails THEN Raised(ep, "StoreError")
        ELSE View(ep, 200, "success", "", [readings |-> data, labels |-> Labels(data)])

ApiUltrasonic ==
    \E docs \in QueryLatest(readings["ESP32002"], UltrasonicLimit),
       queryFails \in Failures(dbAvailable) :
        Answer(ApiUltrasonicOutcome(docs, queryFails))

\* GET /getfeedingscheduleinfo
GetFeedingScheduleInfoOutcome(doc, readFails) ==
    LET ep == "getfeedingscheduleinfo"
    IN  IF ~LoggedIn THEN Unauthorized(ep)
        ELSE IF ~dbAvailable THEN NotInitialized(ep)
        ELSE IF readFails THEN Raised(ep, "StoreError")
        ELSE IF doc.exists
          THEN View(ep, 200, "success", "",
                    [schedule |-> Field(doc.data, "feedingschedule", NoData),
                     enabled |-> Field(doc.data, "scheduleenabled", FALSE)])
        ELSE View(ep, 200, "success", "", [schedule |-> NoData, enabled |-> FALSE])

GetFeedingScheduleInfo ==
    \E readFails \in Failures(PageQueries) :
        Answer(GetFeedingScheduleInfoOutcome(devices["ESP32001"], readFails))

\* order_by("createdAt", ASCENDING) over the documents with createdAt >= since
RECURSIVE AscFrom(_, _)
AscFrom(docs, S) ==
    IF S = {} THEN {<<>>}
    ELSE UNION {{<<i>> \o rest : rest \in AscFrom(docs, S \ {i})} :
                  i \in {k \in S : \A j \in S : docs[k].createdAt <= docs[j].createdAt}}

OrderedAsc(docs, since) ==
    AscFrom(docs, {i \in 1..Len(docs) : docs[i].createdAt >= since})

\* where("createdAt", ">=", since).order_by("createdAt", ASCENDING).stream()
QuerySince(docs, since) ==
    {[i \in DOMAIN p |-> docs[p[i]]] : p \in OrderedAsc(docs, since)}

\* timedelta(hours=24), in clock ticks
Day == 24 * 3600 * TicksPerSecond

\* GET /exportpdf: the readings of the last 24 hours as a PDF table.
ExportPdfOutcome(docs, q) ==
    LET ep == "exportpdf"
    IN  IF ~LoggedIn THEN Redirect(ep, "login")
        ELSE IF ~dbAvailable THEN NotInitialized(ep)
        ELSE IF q = "quota"
          THEN Json(ep, 503, "error",
                    Msg("Database quota exceeded while generating PDF. Please try again later.",
                        NoArg))
        ELSE IF q \in {"error", "late"} THEN Raised(ep, "StoreError")
        ELSE View(ep, 200, "pdf", "", [readings |-> Rows(docs), generated |-> Strftime(now)])

ExportPdf ==
    \E docs \in QuerySince(readings["ESP32001"], now - Day),
       q \in (IF PageQueries THEN ViewQueryOutcomes ELSE {"ok"}) :
        Answer(ExportPdfOutcome(docs, q))

\* GET /apicheckfeedcommand: a placeholder that always answers "none".
ApiCheckFeedCommand(deviceid) ==
    Answer(View("apicheckfeedcommand", 200, "success", "",
                [deviceid |-> IF deviceid = "" THEN "ESP32001" ELSE deviceid,
                 command |-> "none"]))

\* GET /testfirestore
TestFirestoreOutcome(doc, readFails) ==
    LET ep == "testfirestore"
    IN  IF ~dbAvailable THEN NotInitialized(ep)
        ELSE IF readFails THEN Raised(ep, "StoreError")
        ELSE View(ep, 200, "ok", "", [exists |-> doc.exists])

TestFirestore ==
    \E readFails \in Failures(dbAvailable) :
        Answer(TestFirestoreOutcome(devices["ESP32001"], readFails))

\* GET /ping
Ping == Answer(Json("ping", 200, "ok", Msg("Server reachable", NoArg)))

-----------------------------------------------------------------------------
(* Inputs *)

Methods == {"GET", "POST"}
QueryOutcomes == {"ok", "quota", "error"}
ControlActions == {"off", "on", "setspeed", "start", "None"}
SpeedInputs ==
    {Absent, Null, BadStr, PyIntV(-5), PyIntV(0), PyIntV(70), PyIntV(150),
     IntStr(100), PyFloatV(705)}
ControlBodies ==
    {Body("error", "None", Absent)} \cup
    {Body("ok", a, s) : a \in ControlActions, s \in SpeedInputs}

LoginInputs ==
    {<<"GET", "", "", "ok">>, <<"POST", "", "pw1", "ok">>, <<"POST", "op@farm", "", "ok">>} \cup
    {<<"POST", e, p, "ok">> : e \in Emails, p \in Passwords} \cup
    {<<"POST", "op@farm", "pw1", q>> : q \in QueryOutcomes}

LoginStep == \E i \in LoginInputs : Login(i[1], i[2], i[3], i[4])

-----------------------------------------------------------------------------
(* The feeder alone: operator session, clock, /controlfeeder and the poll *)

NextFeeder ==
    \/ Tick
    \/ LoginStep
    \/ Logout
    \/ \E body \in ControlBodies : ControlFeeder(body)
    \/ GetFeedingStatus

SpecFeeder == Init /\ [][NextFeeder]_vars

-----------------------------------------------------------------------------
(* Feeder and motor together: both actuators share the one document *)

\* Speeds below, at and above the limits, a string, and none.
SpeedInputsBoth == {Absent, BadStr, PyIntV(-5), PyIntV(0), PyIntV(70), PyIntV(150)}
ControlBodiesBoth ==
    {Body("error", "None", Absent)} \cup
    {Body("ok", a, s) : a \in ControlActions, s \in SpeedInputsBoth}

NextControl ==
    \/ Tick
    \/ LoginStep
    \/ Logout
    \/ \E body \in ControlBodiesBoth : ControlFeeder(body)
    \/ GetFeedingStatus
    \/ \E body \in ControlBodiesBoth : ControlMotor(body)
    \/ GetMotorStatus

SpecControl == Init /\ [][NextControl]_vars

-----------------------------------------------------------------------------
(* Ingestion: the devices post readings *)

\* Sensor values (temperature, ph, ammonia, turbidity, distance) of a body:
\* complete, numbers sent as strings, out of range, not numeric, missing.
SensorInputs ==
    {<<PyFloatV(255), PyIntV(7), PyFloatV(2), PyIntV(30), PyIntV(12)>>,
     <<DecStr(255), IntStr(7), DecStr(2), IntStr(120), IntStr(12)>>,
     <<PyFloatV(255), PyIntV(7), Null, PyIntV(5000), Absent>>,
     <<BadStr, BadStr, BadStr, BadStr, BadStr>>,
     <<Absent, Absent, Absent, PyIntV(-5), Absent>>,
     <<Absent, Absent, Absent, Absent, Absent>>,
     <<BigInt, Absent, Absent, Absent, Absent>>}
ReadingBodies ==
    {Reading(p, "", Absent, Absent, Absent, Absent, Absent) :
        p \in {"falsy", "nojson", "malformed", "array"}} \cup
    {Reading("object", d, s[1], s[2], s[3], s[4], s[5]) :
        d \in {"", "ESP32001", "ESP32002", "/"}, s \in SensorInputs}

NextIngest ==
    \/ Tick
    \/ LoginStep
    \/ Logout
    \/ \E data \in ReadingBodies : AddReading(data)

SpecIngest == Init /\ [][NextIngest]_vars

-----------------------------------------------------------------------------
(* The pages over the readings: the devices post, the operator looks *)

\* Turbidity that is normal, a warning and a danger.
ViewTurbidities == {PyIntV(30), PyIntV(70), PyIntV(120)}
ViewBodies ==
    {Reading("object", "", PyFloatV(255), PyIntV(7), PyFloatV(2), x, Absent) :
        x \in ViewTurbidities} \cup
    {Reading("object", "ESP32002", Absent, Absent, Absent, Absent, PyIntV(12))}

\* POST /addreading while the pages are in use
PostReading(data) ==
    /\ Stored < MaxViewed
    /\ \E storeFails \in Failures(dbAvailable) : AddReadingHandled(data, TRUE, storeFails)

\* The operator logs in with the right password.
LoginOk == Login("POST", "op@farm", "pw1", "ok")

NextViews ==
    \/ Tick
    \/ LoginOk
    \/ Logout
    \/ \E data \in ViewBodies : PostReading(data)
    \/ Dashboard
    \/ Mosfet
    \/ ControlFeedingPage
    \/ ApiLatestReadings

SpecViews == Init /\ [][NextViews]_vars

-----------------------------------------------------------------------------
(* The whole application: every route of app.py, each with a few inputs.  *)
(* The requests follow one another within one reading of the clock; what   *)
(* depends on time passing is followed in the specifications above.        *)

AppControlBodies == {Body("ok", "on", PyIntV(70)), Body("ok", "start", Absent)}
AppScheduleBodies ==
    {ScheduleBody("ok", "08:00", "17:00", IntStr(5)),
     ScheduleBody("ok", "08:00", "", Absent)}
AppReadingBodies ==
    {Reading("object", "", PyFloatV(255), PyIntV(7), PyFloatV(2), PyIntV(120), Absent),
     Reading("object", "ESP32001", Absent, Absent, Absent, PyIntV(30), Absent),
     Reading("object", "ESP32002", Absent, Absent, Absent, Absent, PyIntV(12))}
\* Bodies of /addreading: good ones, and every kind of body that is no object.
OpenBodies ==
    AppReadingBodies \cup
    {Reading(parse, "", Absent, Absent, Absent, Absent, Absent) :
        parse \in {"falsy", "nojson", "malformed", "array"}}

AppRegisterInputs ==
    {<<"GET", "", "">>, <<"POST", "x@farm", "">>, <<"POST", "op@farm", "pw2">>,
     <<"POST", "x@farm", "pw2">>}
AppLoginInputs ==
    {<<"POST", "op@farm", "pw1">>, <<"POST", "op@farm", "pw2">>, <<"POST", "x@farm", "pw2">>}

NextApp ==
    \/ Home
    \/ \E i \in AppLoginInputs : Login(i[1], i[2], i[3], "ok")
    \/ Logout
    \/ \E i \in AppRegisterInputs, q \in {"ok", "quota"} : Register(i[1], i[2], i[3], q)
    \/ \E e \in {"", "op@farm"} : ResetPassword("POST", e, "ok")
    \/ \E token \in Tokens, password \in {"", "pw1"} :
          ChangePassword(token, "POST", password, "ok")
    \/ \E body \in AppControlBodies : ControlFeeder(body)
    \/ \E body \in AppControlBodies : ControlMotor(body)
    \/ GetFeedingStatus
    \/ GetMotorStatus
    \/ \E body \in AppScheduleBodies : SaveFeedingSchedule(body)
    \/ GetFeedingScheduleInfo
    \/ \E data \in AppReadingBodies : PostReading(data)
    \/ Dashboard
    \/ Mosfet
    \/ ControlFeedingPage
    \/ ExportPdf
    \/ ApiLatestReadings
    \/ Historical
    \/ ApiUltrasonic
    \/ \E deviceid \in {"", "ESP32002"} : ApiCheckFeedCommand(deviceid)
    \/ TestFirestore
    \/ Ping

SpecApp == Init /\ [][NextApp]_vars

-----------------------------------------------------------------------------
(* The two endpoints the device firmware is meant to call, next to an      *)
(* operator who logs in and out and switches the feeder                    *)

NextDevice ==
    \/ Tick
    \/ LoginOk
    \/ Logout
    \/ \E body \in AppControlBodies : ControlFeeder(body)
    \/ \E data \in OpenBodies : AddReading(data)
    \/ GetFeedingStatus

SpecDevice == Init /\ [][NextDevice]_vars

-----------------------------------------------------------------------------
(* Days of operation: the operator switches the feeder and saves a         *)
(* schedule, the device posts and the status is polled, while time passes. *)

OperationFeederBodies == {Body("ok", "on", PyIntV(70)), Body("ok", "off", Absent)}
OperationReading ==
    Reading("object", "", PyFloatV(255), PyIntV(7), PyFloatV(2), PyIntV(120), Absent)

NextOperation ==
    \/ Tick
    \/ LoginOk
    \/ Logout
    \/ \E body \in OperationFeederBodies : ControlFeeder(body)
    \/ \E body \in AppScheduleBodies : SaveFeedingSchedule(body)
    \/ GetFeedingScheduleInfo
    \/ AddReading(OperationReading)
    \/ GetFeedingStatus
    \/ GetMotorStatus
    \/ Dashboard

SpecOperation == Init /\ [][NextOperation]_vars

-----------------------------------------------------------------------------
(* Operators writing at the same time: requests to the three writing       *)
(* endpoints overlap, the device document is polled in between. The clock  *)
(* stands still.                                                           *)

WriterFeederBodies ==
    {Body("ok", "on", PyIntV(70)), Body("ok", "off", Absent), Body("ok", "setspeed", PyIntV(30))}
WriterMotorBodies == {Body("ok", "on", PyIntV(40))}

NextWriters ==
    \/ LoginOk
    \/ Logout
    \/ \E body \in WriterFeederBodies : WriteBegin("controlfeeder", body)
    \/ \E body \in WriterMotorBodies : WriteBegin("controlmotor", body)
    \/ \E body \in AppScheduleBodies : WriteBegin("savefeedingschedule", body)
    \/ \E th \in Threads, storeFails \in BOOLEAN : WriteEnd(th, storeFails)
    \/ GetFeedingStatus

SpecWriters == Init /\ [][NextWriters]_vars

-----------------------------------------------------------------------------
(* Registrations at the same time *)

RegisterInputs == {<<"x@farm", "pw1">>, <<"x@farm", "pw2">>, <<"op@farm", "pw2">>}

NextRegister ==
    \/ \E i \in AppRegisterInputs, q \in {"ok", "quota"} : Register(i[1], i[2], i[3], q)
    \/ \E i \in RegisterInputs : RegisterBegin(i[1], i[2])
    \/ \E th \in Threads, q \in QueryOutcomes : RegisterEnd(th, q)
    \/ \E i \in AppLoginInputs : Login(i[1], i[2], i[3], "ok")
    \/ Logout

SpecRegister == Init /\ [][NextRegister]_vars

-----------------------------------------------------------------------------
(* The hopper: devices/ESP32002 is written from outside the application    *)
(* and read by the dashboard. The store starts with a hopper document that *)
(* holds a feed level, a water level, both or neither, or with none.       *)

FeedLevels == {0, 1, 10, 19, 20, 50}
WaterLevels == {10, 30}

HopperDoc(feed, water) ==
    [exists |-> TRUE,
     data |-> [f \in {"feedlevelpercent" : x \in feed} \cup {"waterlevelpercent" : x \in water} |->
                 IF f = "feedlevelpercent" THEN Some(CHOOSE x \in feed : TRUE)
                 ELSE Some(CHOOSE x \in water : TRUE)]]

\* feed and water are the empty set when the field is missing.
HopperDocs ==
    {NoDoc} \cup
    {HopperDoc(feed, water) :
        feed \in {{}} \cup {{x} : x \in FeedLevels},
        water \in {{}} \cup {{x} : x \in WaterLevels}}

InitHopper ==
    /\ dbAvailable \in BOOLEAN
    /\ loginEnvOff \in BOOLEAN
    /\ users = Registered
    /\ session = NoData
    /\ now = 0
    /\ \E doc \in HopperDocs : devices = [d \in DeviceIds |-> IF d = "ESP32002" THEN doc ELSE NoDoc]
    /\ readings = [d \in DeviceIds |-> <<>>]
    /\ resp = NoResp
    /\ inflight = NoRequests

NextHopper ==
    \/ LoginOk
    \/ Logout
    \/ Dashboard

SpecHopper == InitHopper /\ [][NextHopper]_vars

-----------------------------------------------------------------------------
(* The variant src/New folder/app.py: accounts are kept by Firebase Auth   *)
(* (here: users), the control document is devices/ESP32_001 with the       *)
(* fields feed_status and feed_speed, the session key is user_id.          *)

VariantDevice == "ESP32_001"

\* The module of the variant creates its store client at import, and has
\* no switch that disables the login.
InitVariant ==
    /\ dbAvailable = TRUE
    /\ loginEnvOff = FALSE
    /\ users = Registered
    /\ session = NoData
    /\ now = 0
    /\ devices = [d \in {VariantDevice} |-> NoDoc]
    /\ readings = [d \in DeviceIds |-> <<>>]
    /\ resp = NoResp
    /\ inflight = NoRequests

\* login_required of the variant: 'user_id' in session
variant_logged_in == "user_id" \in DOMAIN session

\* auth.get_user_by_email(email): the account, or an exception when there
\* is none or the call fails. No password is passed to it.
get_user_by_email(email, authFails) ==
    IF authFails \/ UsersWithEmail(email) = {} THEN 0
    ELSE CHOOSE i \in UsersWithEmail(email) : TRUE

\* /login of the variant: what the session and the response are afterwards.
variant_login_outcome(method, email, password, authFails) ==
    LET uid == get_user_by_email(email, authFails)
    IN  IF method = "GET" THEN Out(Page("login", "login.html", ""), session)
        ELSE IF uid = 0 THEN Out(Page("login", "login.html", "Invalid credentials"), session)
        ELSE Out(Redirect("login", "dashboard"),
                 [k \in DOMAIN session \cup {"user_id", "email"} |->
                     IF k = "user_id" THEN uid
                     ELSE IF k = "email" THEN email
                     ELSE session[k]])

variant_login(method, email, password, authFails) ==
    /\ LET o == variant_login_outcome(method, email, password, authFails)
       IN  /\ resp' = o.resp
           /\ session' = o.doc
    /\ UNCHANGED <<inflight, dbAvailable, loginEnvOff, users, now, devices, readings>>

\* The fields /control_feeding writes: action and speed as they came.
control_feeding_fields(body, t) ==
    [feed_status |-> body.action,
     feed_speed |-> GetOr(body.speed, PyIntV(DefaultSpeed)),
     updatedAt |-> t]

\* POST /control_feeding; body.parse is "none" for a body that is no JSON
\* object, for which data.get raises.
control_feeding_outcome(body, doc, t, storeFails) ==
    LET ep == "control_feeding"
    IN  IF ~variant_logged_in THEN Out(Redirect(ep, "login"), doc)
        ELSE IF body.parse = "error" THEN Out(Raised(ep, "BadRequest"), doc)
        ELSE IF body.parse = "none" THEN Out(Raised(ep, "AttributeError"), doc)
        ELSE IF storeFails THEN Out(Raised(ep, "StoreError"), doc)
        ELSE Out(Json(ep, 200, "success", Msg("Feeding {action}", [k |-> body.action, v |-> 0])),
                 Merge(doc, control_feeding_fields(body, t)))

control_feeding(body) ==
    /\ \E storeFails \in Failures(variant_logged_in /\ body.parse = "ok") :
          LET o == control_feeding_outcome(body, devices[VariantDevice], now, storeFails)
          IN  /\ resp' = o.resp
              /\ devices' = [devices EXCEPT ![VariantDevice] = o.doc]
    /\ UNCHANGED <<inflight, dbAvailable, loginEnvOff, users, session, now, readings>>

\* GET /get_feeding_status of the variant
get_feeding_status_outcome(doc, readFails) ==
    LET ep == "get_feeding_status"
    IN  IF ~variant_logged_in THEN Redirect(ep, "login")
        ELSE IF readFails THEN Raised(ep, "StoreError")
        ELSE IF doc.exists
          THEN View(ep, 200, "success", "",
                    [feed_status |-> Field(doc.data, "feed_status", "off"),
                     feed_speed |-> Field(doc.data, "feed_speed", PyIntV(0))])
        ELSE View(ep, 200, "success", "", [feed_status |-> "off", feed_speed |-> PyIntV(0)])

get_feeding_status ==
    \E readFails \in Failures(variant_logged_in) :
        Answer(get_feeding_status_outcome(devices[VariantDevice], readFails))

VariantLoginInputs ==
    {<<"GET", "", "">>, <<"POST", "", "">>, <<"POST", "op@farm", "pw1">>,
     <<"POST", "op@farm", "pw2">>, <<"POST", "x@farm", "pw1">>}

VariantBodies ==
    {Body("error", "None", Absent), Body("none", "None", Absent)} \cup
    {Body("ok", a, s) : a \in ControlActions, s \in SpeedInputsBoth}

NextVariant ==
    \/ Tick
    \/ \E i \in VariantLoginInputs, authFails \in BOOLEAN :
          variant_login(i[1], i[2], i[3], authFails)
    \/ Logout
    \/ \E body \in VariantBodies : control_feeding(body)
    \/ get_feeding_status

SpecVariant == InitVariant /\ [][NextVariant]_vars

-----------------------------------------------------------------------------
(* Properties *)

Ctl == devices["ESP32001"]
HasFeeder == Ctl.exists /\ {"feederspeed", "feederstatus"} \subseteq DOMAIN Ctl.data
HasMotor == Ctl.exists /\ {"motorspeed", "motorstatus"} \subseteq DOMAIN Ctl.data

\* A speed given as an integer: a JSON integer or a string of digits.
IsInteger(x) == x.t \in {"int", "intstr"}

\* C1: after any sequence of /controlfeeder requests the stored document
\* has feederspeed = 0 exactly when feederstatus = "off".
C1_SpeedZeroIffOff ==
    HasFeeder => (Ctl.data.feederspeed = 0 <=> Ctl.data.feederstatus = "off")

\* C2: after any sequence of /controlfeeder and /controlmotor requests the
\* stored feederspeed and motorspeed are within 0..100.
C2_SpeedsInRange ==
    /\ HasFeeder => Ctl.data.feederspeed \in MinSpeed..MaxSpeed
    /\ HasMotor => Ctl.data.motorspeed \in MinSpeed..MaxSpeed

\* The bodies the ingestion claims call malformed: sensor fields missing or
\* not numeric, and the empty or absent body.
MissingOrNotNumeric(data) ==
    /\ data.parse = "object"
    /\ DeviceOf(data) \in DeviceIds
    /\ \E x \in {data.temperature, data.ph, data.ammonia, data.turbidity, data.distance} :
         x.t \in {"absent", "null", "badstr"}
    /\ ~ParseRaises(data)
EmptyOrAbsent(data) == data.parse \in {"falsy", "nojson"}
Malformed(data) == MissingOrNotNumeric(data) \/ EmptyOrAbsent(data)

Success(r) == r.code = 200 /\ r.status = "success"
Error(r, code) == r.code = code /\ r.status = "error"

WriteFails(data, storeFails) ==
    data.parse = "object" /\ DeviceOf(data) \in DeviceIds /\ storeFails

C6_NoDocumentGivesDefaults ==
    /\ (~Ctl.exists /\ LoggedIn /\ dbAvailable) =>
          \A r \in {GetFeedingStatusOutcome(Ctl, FALSE), GetMotorStatusOutcome(Ctl, FALSE)} :
              Success(r) /\ r.state = "off" /\ r.speed = 0
    /\ resp.ep \in {"getfeedingstatus", "getmotorstatus"} => resp.code # 404

\* The motor was polled before any control write and the defaults came back.
C6_Witness ==
    /\ ~Ctl.exists
    /\ resp.ep = "getmotorstatus"
    /\ Success(resp) /\ resp.state = "off" /\ resp.speed = 0

\* C7: a /getfeedingstatus that follows a successful /controlfeeder, with no
\* other request in between, returns what that request set: "on" and s after
\* action on with the integer speed s, "off" and 0 after action off.
C7_PollReturnsLastWrite ==
    [][(resp.ep = "controlfeeder" /\ Success(resp) /\ GetFeedingStatusReq(FALSE)) =>
          /\ (resp.message.text = "Feeder turned ON at {speed}" /\ resp.message.arg.k = "int")
                => (Success(resp') /\ resp'.state = "on" /\ resp'.speed = resp.message.arg.v)
          /\ resp.message.text = "Feeder turned OFF"
                => (Success(resp') /\ resp'.state = "off" /\ resp'.speed = 0)]_vars

\* The feeder is on at 70 and the poll says so.
C7_Witness ==
    /\ resp.ep = "getfeedingstatus" /\ Success(resp)
    /\ resp.state = "on" /\ resp.speed = 70
    /\ HasFeeder /\ Ctl.data.feederspeed = 70

\* C8: /controlfeeder and /controlmotor with action setspeed and an integer
\* speed below 0 or above 100 leave the control document unchanged, and a
\* logged-in request with the store available is answered 400.
C8_OutOfRangeRejected ==
    \A body \in ControlBodiesBoth, storeFails \in BOOLEAN :
        (/\ body.parse = "ok" /\ body.action = "setspeed" /\ IsInteger(body.speed)
         /\ (body.speed.v < 0 \/ body.speed.v > 100))
        => \A o \in {ControlFeederOutcome(body, Ctl, now, storeFails),
                      ControlMotorOutcome(body, Ctl, now, storeFails)} :
              /\ o.doc = Ctl
              /\ (LoggedIn /\ dbAvailable) => Error(o.resp, 400)

\* A set speed was turned away while the feeder was on.
C8_Witness ==
    /\ resp.ep = "controlfeeder" /\ Error(resp, 400)
    /\ resp.message.text = "Speed must be 0-100"
    /\ HasFeeder /\ Ctl.data.feederstatus = "on"

\* C9: /controlfeeder with action setspeed and an integer speed s in 0..100,
\* logged in and with the write succeeding, is answered 200 and leaves the
\* feeder "on" at s when s > 0 and "off" at 0 when s = 0.
C9_SetSpeedInRange ==
    [][\A body \in ControlBodies :
          (/\ body.parse = "ok" /\ body.action = "setspeed" /\ IsInteger(body.speed)
           /\ body.speed.v \in 0..100
           /\ LoggedIn /\ dbAvailable /\ ControlFeederReq(body, FALSE))
          => /\ Success(resp')
             /\ devices'["ESP32001"].data.feederspeed = body.speed.v
             /\ devices'["ESP32001"].data.feederstatus =
                    (IF body.speed.v > 0 THEN "on" ELSE "off")]_vars

\* Speed 0 was set and the feeder is off.
C9_Witness ==
    /\ resp.ep = "controlfeeder" /\ Success(resp)
    /\ resp.message.text = "Feeder speed set to {speedvalue}" /\ resp.message.arg.v = 0
    /\ HasFeeder /\ Ctl.data.feederstatus = "off" /\ Ctl.data.feederspeed = 0

\* C10: /controlfeeder with action on, logged in and with the write
\* succeeding, sets feederstatus "on" and feederspeed to the integer speed
\* of the request, and to 50 when the request gives no speed.
C10_OnSetsSpeed ==
    [][\A body \in ControlBodies :
          (/\ body.parse = "ok" /\ body.action = "on"
           /\ (IsInteger(body.speed) \/ body.speed = Absent)
           /\ LoggedIn /\ dbAvailable /\ ControlFeederReq(body, FALSE))
          => /\ Success(resp')
             /\ devices'["ESP32001"].data.feederstatus = "on"
             /\ devices'["ESP32001"].data.feederspeed =
                    (IF body.speed = Absent THEN 50 ELSE body.speed.v)]_vars

\* The feeder was switched on with no speed given and runs at 50.
C10_Witness ==
    /\ resp.ep = "controlfeeder" /\ Success(resp)
    /\ resp.message.text = "Feeder turned ON at {speed}" /\ resp.message.arg.v = 50
    /\ HasFeeder /\ Ctl.data.feederstatus = "on" /\ Ctl.data.feederspeed = 50

\* C11: /controlfeeder with action off, logged in and with the write
\* succeeding, is answered 200 and leaves feederstatus "off" and feederspeed
\* 0, whatever the document held before and whatever speed the request
\* carries; while "Feeder turned OFF" is the last response the stored feeder
\* is off at 0.
C11_OffForcesZero ==
    /\ (LoggedIn /\ dbAvailable) =>
          \A body \in ControlBodies :
              (body.parse = "ok" /\ body.action = "off") =>
                  LET o == ControlFeederOutcome(body, Ctl, now, FALSE)
                  IN  /\ Success(o.resp)
                      /\ o.doc.exists
                      /\ o.doc.data.feederstatus = "off"
                      /\ o.doc.data.feederspeed = 0
    /\ (resp.ep = "controlfeeder" /\ resp.message.text = "Feeder turned OFF") =>
          (HasFeeder /\ Ctl.data.feederstatus = "off" /\ Ctl.data.feederspeed = 0)

\* The feeder was switched off after the clock had moved.
C11_Witness ==
    /\ resp.ep = "controlfeeder" /\ Success(resp)
    /\ resp.message.text = "Feeder turned OFF"
    /\ HasFeeder /\ Ctl.data.feederstatus = "off" /\ Ctl.data.feederspeed = 0
    /\ Ctl.data.updatedAt > 0

\* C12: /controlfeeder with an action other than off, on and setspeed, a
\* missing action included, leaves the control document unchanged, and a
\* logged-in request with the store available is answered 400 "Invalid
\* action".
C12_InvalidActionRejected ==
    /\ \A body \in ControlBodies, storeFails \in BOOLEAN :
          (body.parse = "ok" /\ body.action \notin {"off", "on", "setspeed"}) =>
              LET o == ControlFeederOutcome(body, Ctl, now, storeFails)
              IN  /\ o.doc = Ctl
                  /\ (LoggedIn /\ dbAvailable) =>
                        (Error(o.resp, 400) /\ o.resp.message.text = "Invalid action")
    /\ (resp.ep = "controlfeeder" /\ resp.message.text = "Invalid action") =>
          Error(resp, 400)

\* An unknown action was turned away while the feeder was on at 70.
C12_Witness ==
    /\ resp.ep = "controlfeeder" /\ Error(resp, 400)
    /\ resp.message.text = "Invalid action"
    /\ HasFeeder /\ Ctl.data.feederstatus = "on" /\ Ctl.data.feederspeed = 70

\* Turbidity values as a device can send them: missing, null, not numeric,
\* nan, the infinities, and numbers below, at and above the limits.
TurbidityInputs ==
    {Absent, Null, BadStr, NaNV, InfV(1), InfV(-1),
     PyIntV(-5), PyFloatV(-1), PyIntV(0), PyIntV(30), PyIntV(50), PyFloatV(501),
     PyIntV(100), PyFloatV(1001), IntStr(120), DecStr(29999), PyIntV(3000),
     PyFloatV(30001), PyIntV(5000)}

\* The input is a number: float() takes it and the result is not nan.
IsNumber(x) == PyFloat(x).ok /\ PyFloat(x).val # NaN

\* C15: for every input that is a number, normalize_turbidity gives 3000
\* when it is above 3000, 0 when it is below 0 and the number itself when it
\* is in [0, 3000]; normalising the result again gives the same result, for
\* every input; the turbidity of every stored reading is None or in
\* [0, 3000], and the pages, which normalise it again, show it unchanged.
C15_ClampIdempotent ==
    /\ \A x \in TurbidityInputs :
          LET f == PyFloat(x)
              r == normalize_turbidity(x)
          IN  /\ IsNumber(x) =>
                    /\ r.some /\ r.v \in 0..TurbidityMax
                    /\ f.val > TurbidityMax => r.v = TurbidityMax
                    /\ f.val < 0 => r.v = 0
                    /\ f.val \in 0..TurbidityMax => r.v = f.val
              /\ normalize_turbidity(AsValue(r)) = r
    /\ \A d \in DeviceIds : \A i \in 1..Len(readings[d]) :
          LET t == readings[d][i].turbidity
          IN  /\ t.some => t.v \in 0..TurbidityMax
              /\ Row(readings[d][i]).turbidity = t

\* A turbidity of 5000 was stored as 3000, and one of -5 as 0.
C15_Witness ==
    /\ resp.ep = "addreading" /\ Success(resp)
    /\ \E d \in DeviceIds : \E i \in 1..Len(readings[d]) :
          readings[d][i].turbidity \in {Some(TurbidityMax), Some(0)}

\* The readings of ESP32001, in the order they were stored.
Main == readings["ESP32001"]

\* The reading stored last is newer than every other one.
LastIsNewest ==
    /\ Main # <<>>
    /\ \A i \in 1..(Len(Main) - 1) : Main[i].createdAt < Main[Len(Main)].createdAt

\* The readings of ESP32001 after a post of this turbidity is stored now.
AfterPost(x) ==
    AddReadingOutcome(Reading("object", "", Absent, Absent, Absent, x, Absent),
                      readings, now, TRUE, FALSE).doc["ESP32001"]

\* The summaries a logged-in operator can get for these readings.
Summaries(rds) ==
    {DashboardOutcome(docs, "ok", FALSE, FALSE).ctx.summary :
        docs \in QueryLatest(rds, LatestLimit)}

\* The last response is a dashboard that showed readings.
DashboardShown ==
    resp.ep = "dashboard" /\ resp.code = 200 /\ resp.ctx.alertcolor # "gray"

\* C16: for a logged-in operator with the store available, once a reading
\* with turbidity 120 is stored for ESP32001 with a createdAt after all the
\* others, the dashboard summary is the danger alert, and once a reading with
\* turbidity 30 is stored after it, the summary is "All systems normal.".
C16_SummaryFollowsLatest ==
    (LoggedIn /\ dbAvailable) =>
        /\ (Stored < MaxViewed /\ \A i \in 1..Len(Main) : Main[i].createdAt < now) =>
              /\ Summaries(AfterPost(PyIntV(120))) = {"Water is too cloudy! Danger"}
              /\ Summaries(AfterPost(PyIntV(30))) = {"All systems normal."}
        /\ (DashboardShown /\ LastIsNewest) =>
              /\ Main[Len(Main)].turbidity = Some(1200) =>
                    resp.ctx.summary = "Water is too cloudy! Danger"
              /\ Main[Len(Main)].turbidity = Some(300) =>
                    resp.ctx.summary = "All systems normal."

\* 120 was stored, then 30 at a later time, and the dashboard shows normal.
C16_Witness ==
    /\ DashboardShown /\ LastIsNewest
    /\ Len(Main) = 2
    /\ Main[1].turbidity = Some(1200) /\ Main[2].turbidity = Some(300)
    /\ resp.ctx.summary = "All systems normal."

\* The alert the thresholds give for a stored turbidity, in tenths.
ExpectedSummary(t) ==
    IF t.some /\ t.v # NaN /\ t.v > 1000 THEN "Water is too cloudy! Danger"
    ELSE IF t.some /\ t.v # NaN /\ t.v > 500 /\ t.v <= 1000 THEN "Water is getting cloudy."
    ELSE "All systems normal."

\* The greatest createdAt among these readings.
IsNewest(rds, i) == \A j \in 1..Len(rds) : rds[j].createdAt <= rds[i].createdAt

\* The summary is the alert of one of these readings that no other is newer
\* than, and the alert of the last one stored when that one is newer than
\* all others; with no readings it is normal.
AlertFromNewest(summary, rds) ==
    /\ rds = <<>> => summary = "All systems normal."
    /\ rds # <<>> =>
          /\ \E i \in 1..Len(rds) :
                IsNewest(rds, i) /\ summary = ExpectedSummary(rds[i].turbidity)
          /\ (\A j \in 1..(Len(rds) - 1) : rds[j].createdAt < rds[Len(rds)].createdAt)
                => summary = ExpectedSummary(rds[Len(rds)].turbidity)

\* Turbidity at and just above the two thresholds, null, nan, clamped.
ThresholdTurbidities ==
    {PyIntV(50), PyFloatV(501), PyIntV(100), PyFloatV(1001), Null, NaNV, PyIntV(5000)}

\* C17: the alert of a dashboard that shows readings is danger when the
\* turbidity of the newest reading is above 100, warning when it is above 50
\* and at most 100, normal otherwise (at most 50, null, nan, no readings);
\* readings older than the newest do not change it. The same holds for the
\* dashboard after one more reading, with any turbidity, is stored.
C17_AlertFromLatestOnly ==
    DashboardShown =>
        /\ AlertFromNewest(resp.ctx.summary, Main)
        /\ Stored < MaxViewed =>
              \A x \in ThresholdTurbidities : \A summary \in Summaries(AfterPost(x)) :
                  AlertFromNewest(summary, AfterPost(x))

\* The dashboard warns for a 70 that was stored after a 120.
C17_Witness ==
    /\ DashboardShown /\ LastIsNewest
    /\ Len(Main) = 2
    /\ Main[1].turbidity = Some(1200) /\ Main[2].turbidity = Some(700)
    /\ resp.ctx.summary = "Water is getting cloudy."

\* The rows are in chronological order.
Chronological(rows) ==
    \A i, j \in 1..Len(rows) : i < j => rows[i].createdAt <= rows[j].createdAt

\* C18: the readings /dashboard, /apilatestreadings, /mosfet and
\* /controlfeeding pass on are in chronological order, with non-decreasing
\* createdAt.
C18_PassedOnChronological ==
    (resp.ep \in {"dashboard", "apilatestreadings", "mosfet", "controlfeeding"}
       /\ resp.code = 200) =>
        /\ Chronological(resp.ctx.readings)
        /\ resp.ep = "controlfeeding" => Chronological(resp.ctx.allreadings)

\* C19: of any two readings of one device, the one stored later has the
\* strictly greater createdAt.
C19_CreatedAtStrictlyIncreases ==
    \A d \in DeviceIds : \A i, j \in 1..Len(readings[d]) :
        i < j => readings[d][i].createdAt < readings[d][j].createdAt

\* The request carries a session cookie that names a user.
HasSession == "user" \in DOMAIN session

ScheduleBodies ==
    AppScheduleBodies \cup
    {ScheduleBody("ok", "08:00", "17:00", BadStr),
     ScheduleBody("ok", "08:00", "17:00", PyIntV(0)),
     ScheduleBody("error", "", "", Absent)}

\* C14: without a login session /controlfeeder, /controlmotor and
\* /savefeedingschedule answer 401 and leave the control document as it is;
\* the control document changes only in a step of one of the three that a
\* session allowed, and a session starts only with a successful /login and
\* ends with /logout.
C14_WritesNeedSession ==
    /\ [](~HasSession =>
             \A storeFails \in BOOLEAN :
                 /\ \A body \in ControlBodies \cup AppControlBodies :
                       /\ ControlFeederOutcome(body, Ctl, now, storeFails)
                              = Out(Unauthorized("controlfeeder"), Ctl)
                       /\ ControlMotorOutcome(body, Ctl, now, storeFails)
                              = Out(Unauthorized("controlmotor"), Ctl)
                 /\ \A body \in ScheduleBodies :
                       SaveFeedingScheduleOutcome(body, Ctl, now, storeFails)
                           = Out(Unauthorized("savefeedingschedule"), Ctl))
    /\ [][/\ (devices' # devices) =>
                (/\ HasSession /\ session' = session
                 /\ resp'.ep \in {"controlfeeder", "controlmotor", "savefeedingschedule"}
                 /\ Success(resp'))
          /\ (~HasSession /\ HasSession') => (resp' = Redirect("login", "dashboard"))
          /\ (resp'.ep = "logout" /\ resp # resp') => ~HasSession']_vars

\* After a logout, with the feeder on, a control request was answered 401.
C14_Witness ==
    /\ ~HasSession
    /\ resp.ep = "controlfeeder" /\ Error(resp, 401)
    /\ HasFeeder /\ Ctl.data.feederstatus = "on"

\* C20: in every step, every reading stored before is still stored, in its
\* place and with the same field values; the readings change only in a step
\* of /addreading that is answered 200, and then by one new reading.
C20_ReadingsAppendOnly ==
    [][(readings' # readings) =>
          (/\ \A d \in DeviceIds :
                /\ Len(readings'[d]) >= Len(readings[d])
                /\ SubSeq(readings'[d], 1, Len(readings[d])) = readings[d]
           /\ Stored' = Stored + 1
           /\ resp'.ep = "addreading" /\ Success(resp'))]_vars

\* Two readings are stored and the operator has since saved a schedule.
C20_Witness ==
    /\ Len(Main) = 2 /\ Main[1] # Main[2]
    /\ resp.ep = "savefeedingschedule" /\ Success(resp)
    /\ Cardinality(DOMAIN Ctl.data) > 3

\* The value of a sensor field is a number or a string holding one.
Numeric(x) == x.t \in {"int", "float", "intstr", "decstr", "inf", "nan"}

\* That number, in tenths.
InTenths(x) ==
    CASE x.t \in {"int", "intstr"} -> 10 * x.v
      [] x.t \in {"float", "decstr"} -> x.v
      [] x.t = "inf" -> x.v * Inf
      [] OTHER -> NaN

\* The number within the turbidity range 0..3000.
Clamped(v) == IF PyLt(v, 0) THEN 0 ELSE IF PyGt(v, TurbidityMax) THEN TurbidityMax ELSE v

SensorFields == {"temperature", "ph", "ammonia", "turbidity", "distance"}

\* What the claim expects to be stored for the value x of field f.
ExpectedStored(f, x) ==
    IF ~Numeric(x) THEN None
    ELSE IF f = "turbidity" THEN Some(Clamped(InTenths(x)))
    ELSE Some(InTenths(x))

\* C24: for every body that is a JSON object naming a device, each of the
\* five sensor fields is stored as null when it is absent or cannot be
\* parsed as a number and as the number otherwise (turbidity within its
\* range); no conversion raises: no request is answered with the exception
\* of a conversion.
C24_ParseStoresNumberOrNull ==
    /\ dbAvailable =>
          \A data \in ReadingBodies :
              (data.parse = "object" /\ DeviceOf(data) \in DeviceIds /\ ~ParseRaises(data)) =>
                  LET o == AddReadingOutcome(data, readings, now, TRUE, FALSE)
                      was == readings[DeviceOf(data)]
                      is == o.doc[DeviceOf(data)]
                  IN  /\ Success(o.resp)
                      /\ Len(is) = Len(was) + 1
                      /\ \A f \in SensorFields : is[Len(is)][f] = ExpectedStored(f, data[f])
    /\ resp.ep = "addreading" => resp.message.arg.k # "OverflowError"

\* A body as the interface documents it: the device names itself in the
\* field device_id, and sends no field deviceid.
Documented(device_id, s) ==
    [f \in {"parse", "deviceid", "device_id"} \cup SensorFields |->
        CASE f = "parse" -> "object"
          [] f = "deviceid" -> ""
          [] f = "device_id" -> device_id
          [] f = "temperature" -> s[1]
          [] f = "ph" -> s[2]
          [] f = "ammonia" -> s[3]
          [] f = "turbidity" -> s[4]
          [] f = "distance" -> s[5]]

DocumentedSensorInputs ==
    {<<PyFloatV(255), PyIntV(7), PyFloatV(2), PyIntV(30), Absent>>,
     <<Absent, Absent, Absent, Absent, PyIntV(12)>>}

\* C25: a reading posted with device id X in the field device_id is
\* appended to the readings of X, and the readings of every other device
\* stay as they are.
C25_FiledUnderItsDevice ==
    dbAvailable =>
        \A X \in DeviceIds, s \in DocumentedSensorInputs :
            LET data == Documented(X, s)
                o == AddReadingOutcome(data, readings, now, TRUE, FALSE)
            IN  /\ Success(o.resp)
                /\ o.doc[X] = Append(readings[X], ReadingDoc(data, now))
                /\ \A Y \in DeviceIds \ {X} : o.doc[Y] = readings[Y]

VariantCtl == devices[VariantDevice]

\* C28: in the variant, after any sequence of /control_feeding requests the
\* stored feed_status is "on" or "off", feed_speed is an integer in 0..100,
\* and feed_speed is 0 whenever feed_status is "off".
C28_VariantFeedInvariant ==
    VariantCtl.exists =>
        /\ VariantCtl.data.feed_status \in {"on", "off"}
        /\ VariantCtl.data.feed_speed.t = "int"
        /\ VariantCtl.data.feed_speed.v \in MinSpeed..MaxSpeed
        /\ VariantCtl.data.feed_status = "off" => VariantCtl.data.feed_speed.v = 0

\* C30: in the variant, a /login step leaves a session with user_id only
\* when the submitted password is the password of the account registered
\* for the submitted email.
C30_VariantLoginChecksPassword ==
    [][\A i \in VariantLoginInputs, authFails \in BOOLEAN :
          (variant_login(i[1], i[2], i[3], authFails) /\ ~variant_logged_in
             /\ variant_logged_in')
              => \E u \in UsersWithEmail(i[2]) : users[u].password = i[3]]_vars

Hopper == devices["ESP32002"]

\* C23: for a logged-in operator with the store working, the dashboard
\* shows the low-feed warning exactly when the stored feed level percent of
\* ESP32002 is below 20, from 0 on, and shows none when there is no hopper
\* document.
C23_LowFeedBelowTwenty ==
    (LoggedIn /\ dbAvailable) =>
        \A docs \in QueryLatest(Main, LatestLimit) :
            LET shown == DashboardOutcome(docs, "ok", FALSE, FALSE).ctx.lowfeedalert
            IN  /\ ~Hopper.exists => ~shown
                /\ (Hopper.exists /\ "feedlevelpercent" \in DOMAIN Hopper.data) =>
                      (shown <=> Hopper.data.feedlevelpercent.v < LowFeedBelow)

FeederFields == {"feederstatus", "feederspeed"}
MotorFields == {"motorstatus", "motorspeed"}
ScheduleFieldNames == {"feedingschedule", "scheduleenabled"}
ControlFieldNames == FeederFields \cup MotorFields \cup ScheduleFieldNames \cup {"updatedAt"}

\* The fields a request to ep supplies.
Supplies(ep) ==
    (CASE ep = "controlfeeder" -> FeederFields
       [] ep = "controlmotor" -> MotorFields
       [] ep = "savefeedingschedule" -> ScheduleFieldNames) \cup {"updatedAt"}

\* The step leaves field f of the control document as it is.
Kept(f) ==
    IF Ctl.exists /\ f \in DOMAIN Ctl.data
      THEN f \in DOMAIN Ctl'.data /\ Ctl'.data[f] = Ctl.data[f]
    ELSE ~Ctl.exists \/ f \notin DOMAIN Ctl'.data

\* Thread th makes its write in this step.
Writes(th) == inflight[th].ep \in WriteEndpoints /\ inflight'[th] = Idle

\* C21: whenever a request to /controlfeeder, /controlmotor or
\* /savefeedingschedule makes its write, however the requests overlap, the
\* fields it does not supply stay as they are (for /controlfeeder the
\* motor and schedule fields, for /controlmotor the feeder and schedule
\* fields, for /savefeedingschedule the four actuator fields), the fields
\* it supplies hold its values when it succeeded, and nothing else changes
\* the documents.
C21_WritesOnlyOwnFields ==
    [][/\ \A th \in Threads :
             Writes(th) =>
                 (/\ DOMAIN inflight[th].fields = Supplies(inflight[th].ep)
                  /\ \A f \in ControlFieldNames \ Supplies(inflight[th].ep) : Kept(f)
                  /\ Success(resp') =>
                        (/\ Ctl'.exists
                         /\ \A f \in Supplies(inflight[th].ep) :
                               Ctl'.data[f] = inflight[th].fields[f])
                  /\ ~Success(resp') => devices' = devices
                  /\ devices'["ESP32002"] = devices["ESP32002"])
       /\ (\A th \in Threads : ~Writes(th)) => devices' = devices]_vars

\* Feeder, motor and schedule have all been written, the schedule last and
\* while another request was in flight.
C21_Witness ==
    /\ HasFeeder /\ HasMotor /\ ScheduleFieldNames \subseteq DOMAIN Ctl.data
    /\ Ctl.data.feederstatus = "on" /\ Ctl.data.motorstatus = "on"
    /\ resp.ep = "savefeedingschedule" /\ Success(resp)
    /\ Busy # {}

\* The status and speed a /controlfeeder request with this body writes.
PairOf(body) ==
    LET n == PyInt(GetOr(body.speed, PyIntV(DefaultSpeed))).val
    IN  CASE body.action = "off" -> <<"off", 0>>
          [] body.action = "on" -> <<"on", n>>
          [] body.action = "setspeed" -> <<IF n > 0 THEN "on" ELSE "off", n>>

FeederPair(data) == <<data.feederstatus, data.feederspeed>>
RequestPairs == {PairOf(body) : body \in WriterFeederBodies}

\* C26: with /controlfeeder requests overlapping in any way, the stored
\* feederstatus and feederspeed are always the pair of one request; the
\* write that came last decides it; and a poll reads such a pair, or the
\* defaults before any write.
C26_LastWriterWinsWholePair ==
    /\ [](/\ HasFeeder => FeederPair(Ctl.data) \in RequestPairs
          /\ (resp.ep = "getfeedingstatus" /\ Success(resp)) =>
                <<resp.state, resp.speed>> \in RequestPairs \cup {<<"off", 0>>})
    /\ [][\A th \in Threads :
             (Writes(th) /\ inflight[th].ep = "controlfeeder" /\ Success(resp')) =>
                 FeederPair(Ctl'.data) = FeederPair(inflight[th].fields)]_vars

\* A feeder request that was taken up before the write that came last is
\* still in flight with another pair, and a poll has read the stored pair.
C26_Witness ==
    /\ HasFeeder
    /\ \E th \in Busy :
          /\ inflight[th].ep = "controlfeeder"
          /\ FeederPair(inflight[th].fields)[1] # Ctl.data.feederstatus
          /\ FeederPair(inflight[th].fields)[2] # Ctl.data.feederspeed
    /\ resp.ep = "getfeedingstatus" /\ Success(resp)
    /\ <<resp.state, resp.speed>> = FeederPair(Ctl.data)

\* C29: the users collection holds at most one account per email.
C29_OneAccountPerEmail ==
    \A email \in Emails : Cardinality(UsersWithEmail(email)) <= 1

ReadEndpoints == {"getfeedingstatus", "getmotorstatus", "dashboard"}

\* The dashboards a logged-in operator can get from the store as it is,
\* every read succeeding.
Dashboards ==
    {DashboardOutcome(docs, "ok", FALSE, FALSE) : docs \in QueryLatest(Main, LatestLimit)}

\* C22: a step answered by /getfeedingstatus, /getmotorstatus or /dashboard
\* leaves the control documents and the readings as they are; and as long
\* as the answer of a successful read is the last response, so no write
\* came after it, the same request with its reads succeeding is answered
\* the same.
C22_ReadsHaveNoEffect ==
    /\ [][resp'.ep \in ReadEndpoints => (devices' = devices /\ readings' = readings)]_vars
    /\ [](/\ (resp.ep = "getfeedingstatus" /\ Success(resp)) =>
                resp = GetFeedingStatusOutcome(Ctl, FALSE)
          /\ (resp.ep = "getmotorstatus" /\ Success(resp)) =>
                resp = GetMotorStatusOutcome(Ctl, FALSE)
          /\ (DashboardShown /\ resp.ctx.feederalert # "Feeder status unavailable") =>
                resp \in Dashboards)

\* The dashboard was shown with the feeder on and a reading stored, and
\* time has passed since the feeder was switched.
C22_Witness ==
    /\ DashboardShown
    /\ resp.ctx.feederalert = "Feeding in progress at {feederspeed}% speed"
    /\ Main # <<>>
    /\ now > Ctl.data.updatedAt

\* The stored feeder status and speed, "none" before the first write.
FeederState == IF HasFeeder THEN FeederPair(Ctl.data) ELSE <<"none", 0>>

\* C27: the stored feederstatus and feederspeed change only in a step of
\* /controlfeeder that is answered with success; saving a schedule, a
\* posted reading, a poll, a page and the passing of time leave them.
C27_OnlyControlFeederMovesFeeder ==
    [][FeederState' # FeederState =>
          (resp'.ep = "controlfeeder" /\ Success(resp') /\ LoggedIn)]_vars

\* The feeder is off, a schedule was saved and is enabled, time has passed
\* to the end since, a reading is stored and the feeder was polled.
C27_Witness ==
    /\ HasFeeder /\ Ctl.data.feederstatus = "off"
    /\ ScheduleFieldNames \subseteq DOMAIN Ctl.data
    /\ Ctl.data.scheduleenabled
    /\ now = MaxTime /\ Ctl.data.updatedAt < now
    /\ Stored > 0
    /\ resp.ep = "getfeedingstatus" /\ Success(resp) /\ resp.state = "off"

====
